---- MODULE Spec2Model ----
(***************************************************************************)
(* xray-audit ingestion pipeline: the resumable log tailer, the collector  *)
(* loop with its flush protocol, and the persistent store it writes.       *)
(*                                                                         *)
(* Files are sequences of bytes; a byte is a payload character or NL.      *)
(* Byte offsets, inodes and handle positions are the integers the code     *)
(* keeps.  0 stands for Python's None (no handle, no inode, no file).      *)
(***************************************************************************)
EXTENDS Integers, Sequences, FiniteSets, TLC

\* ------------------------------------------------------------------------
\* Bounds of the model
\* ------------------------------------------------------------------------
MaxInode == 2
MaxLines == 2
MaxErrorLines == 1
MaxFails == 2
MaxRestarts == 1
BatchSize == 2
MaxFileBytes == 3
MaxPoll == 2
MaxBatch == 2
MaxRows == 3
MaxDay == 4
MaxDeleteBatch == 2
MaxWrites == 1
MaxBurst == 4 * BatchSize + 1
MaxItems == 2
MaxClock == 6
MaxPhrases == 2
FlushInterval == 2
MaxPruneRows == 4
MaxPushed == 1004

\* ------------------------------------------------------------------------
\* Bytes, lines, files
\* ------------------------------------------------------------------------
NL == "NL"

Paths == {"access", "error"}

Max(a, b) == IF a >= b THEN a ELSE b

Min(S) == CHOOSE x \in S : \A y \in S : x <= y

RECURSIVE Concat(_)
Concat(ss) == IF ss = <<>> THEN <<>> ELSE Head(ss) \o Concat(Tail(ss))

\* One path of the file system: the inode now at the path (0: no file) and
\* the content of every inode ever created there (a rotated-away file keeps
\* its content for the handles still open on it).
EmptyDisk == [cur |-> 1, data |-> [i \in 1..MaxInode |-> <<>>]]

st_size(d) == Len(d.data[d.cur])

\* ------------------------------------------------------------------------
\* LogTailer
\* ------------------------------------------------------------------------
LogTailer == [fh |-> 0, pos |-> 0, inode |-> 0, offset |-> 0]

set_state(t, inode, offset) == [t EXCEPT !.inode = inode, !.offset = Max(0, offset)]

state(t) == <<t.inode, t.offset>>

close(t) == [t EXCEPT !.fh = 0]

\* _open with the offset reset of the source
open_reset(size, offset) == IF size < offset THEN 0 ELSE offset

\* _open: FALSE when the path does not exist; otherwise take a handle on the
\* inode at the path, record the inode, reset an offset beyond the size, seek.
tailer_open(t, d) ==
    IF d.cur = 0
    THEN [ok |-> FALSE, t |-> t]
    ELSE LET off == open_reset(st_size(d), t.offset)
         IN [ok |-> TRUE,
             t |-> [fh |-> d.cur, pos |-> off, inode |-> d.cur, offset |-> off]]

ensure_open(t, d) == IF t.fh # 0 THEN [ok |-> TRUE, t |-> t] ELSE tailer_open(t, d)

\* The file is opened in text mode with universal newlines: a line ends at
\* NL, at CR NL or at a lone CR, and each of them is handed out as NL.
CR == "CR"

\* the index of the byte that ends the line starting after pos, 0 when the
\* rest of the file holds no line ending
line_end(content, pos) ==
    LET ends == {j \in (pos + 1)..Len(content) : content[j] \in {NL, CR}}
    IN IF ends = {} THEN 0 ELSE Min(ends)

\* the line after pos ends in a CR that no NL follows: the decoder holds the
\* CR back to see the byte after it
pending_cr(content, pos) ==
    LET j == line_end(content, pos)
    IN /\ j # 0
       /\ content[j] = CR
       /\ ~(j < Len(content) /\ content[j + 1] = NL)

\* the bytes one readline() takes from the file
readline_bytes(content, pos) ==
    LET j == line_end(content, pos)
    IN IF pos >= Len(content)
       THEN 0
       ELSE IF j = 0
            THEN Len(content) - pos
            ELSE IF content[j] = CR /\ j < Len(content) /\ content[j + 1] = NL
                 THEN j + 1 - pos
                 ELSE j - pos

\* file.readline() at byte position pos: up to the next line ending, which
\* is returned as NL; the unterminated rest of the file when there is no
\* line ending; empty at or past EOF.
readline(content, pos) ==
    LET j == line_end(content, pos)
    IN IF pos >= Len(content)
       THEN <<>>
       ELSE IF j = 0
            THEN SubSeq(content, pos + 1, Len(content))
            ELSE Append(SubSeq(content, pos + 1, j - 1), NL)

\* TextIOWrapper.tell() packs the state of the decoder above bit 64 of the
\* number it returns; the number stands here for any value beyond every
\* file size.
DecoderFlags == 1024

\* the offset the tailer records after a line: file.tell(), the byte
\* position after the line plus the flags of a decoder that holds a CR
tell_after(content, pos) ==
    pos + readline_bytes(content, pos) + (IF pending_cr(content, pos) THEN DecoderFlags ELSE 0)

\* the while loop of read_new_lines
RECURSIVE read_loop(_, _, _, _)
read_loop(t, content, max_lines, out) ==
    IF Len(out) >= max_lines
    THEN [t |-> t, out |-> out]
    ELSE LET line == readline(content, t.pos)
         IN IF line = <<>>
            THEN [t |-> t, out |-> out]
            ELSE LET p == t.pos + readline_bytes(content, t.pos)
                 IN read_loop([t EXCEPT !.pos = p, !.offset = tell_after(content, t.pos)],
                              content, max_lines, Append(out, line))

\* the inode comparison of _check_rotation_or_truncate
rotated(t, d) == t.inode # 0 /\ d.cur # t.inode

\* the size comparison taken with <= : a tailer at the end of its file counts
\* as truncated
truncated_at_eof(t, d) == st_size(d) <= t.offset /\ t.fh # 0

\* the size comparison of _check_rotation_or_truncate
truncated(t, d) == st_size(d) < t.offset /\ t.fh # 0

\* the rotation branch without its self._offset = 0
check_rotation_keeping_offset(t, d) ==
    IF d.cur = 0
    THEN t
    ELSE IF rotated(t, d)
         THEN tailer_open(close(t), d).t
         ELSE IF truncated(t, d)
              THEN [t EXCEPT !.pos = 0, !.offset = 0]
              ELSE t

\* the truncation branch without its self._fh.seek(0)
check_truncate_without_seek(t, d) ==
    IF d.cur = 0
    THEN t
    ELSE IF rotated(t, d)
         THEN tailer_open([close(t) EXCEPT !.offset = 0], d).t
         ELSE IF truncated(t, d)
              THEN [t EXCEPT !.offset = 0]
              ELSE t

check_rotation_or_truncate(t, d) ==
    IF d.cur = 0
    THEN t
    ELSE IF rotated(t, d)
         THEN tailer_open([close(t) EXCEPT !.offset = 0], d).t
         ELSE IF truncated(t, d)
              THEN [t EXCEPT !.pos = 0, !.offset = 0]
              ELSE t

read_new_lines(t, d, max_lines) ==
    LET o == ensure_open(t, d)
    IN IF ~o.ok
       THEN [t |-> o.t, out |-> <<>>]
       ELSE LET r == read_loop(o.t, d.data[o.t.fh], max_lines, <<>>)
            IN IF r.out = <<>>
               THEN [t |-> check_rotation_or_truncate(r.t, d), out |-> <<>>]
               ELSE r

\* ------------------------------------------------------------------------
\* Lines of the two logs.  The first byte of a line stands for its timestamp
\* prefix and body; the whole line without its line ending is what raw_hash
\* digests (SHA-256 is taken as collision free).
\*   "a"  stamped access line, remote source, detour socks-in -> direct
\*   "l"  stamped access line from 127.0.0.1, detour socks-in -> direct
\*   "d"  stamped DNS answer line
\*   "u"  stamped line of neither dialect
\*   "b"  stamped line whose body matches _ACCESS_RE and _DNS_RE alike
\*        (from 1.2.3.4 accepted got answer: x -> [1.1.1.1])
\*   "t"  a date and a time with no body after them
\*   "x"  line without a timestamp prefix
\*   "e"  stamped [Error] line          "w"  stamped [Warning] line
\*   "i"  stamped [Info] line
\* ------------------------------------------------------------------------
AccessSyms == {"a", "l", "x"}
ErrorSyms == {"e", "i"}

rstrip(line) == IF line # <<>> /\ line[Len(line)] = NL THEN SubSeq(line, 1, Len(line) - 1) ELSE line

\* _parse_timestamp_prefix: does the line start with a date, a time and a body
parse_timestamp_prefix(line) == rstrip(line) # <<>> /\ Head(line) \in {"a", "l", "d", "u", "b"}

\* the event_time the timestamp prefix of a line denotes, as a day number:
\* "d", "u", "w" and "i" lines are one day older than the others
event_time_of(line) == IF Head(line) \in {"d", "u", "w", "i"} THEN 1 ELSE 2

\* _parse_access: the access payload (a one-element sequence) or <<>> for None
parse_access(line) ==
    IF Head(line) = "a"
    THEN <<[src |-> "1.2.3.4:12345", dest_host |-> "example.com", dest_raw |-> "tcp:example.com:443",
            status |-> "accepted", detour |-> "socks-in -> direct", reason |-> ""]>>
    ELSE IF Head(line) = "l"
         THEN <<[src |-> "127.0.0.1:50000", dest_host |-> "example.com", dest_raw |-> "tcp:example.com:443",
                 status |-> "accepted", detour |-> "socks-in -> direct", reason |-> ""]>>
         ELSE IF Head(line) = "b"
              THEN <<[src |-> "1.2.3.4", dest_host |-> "got", dest_raw |-> "got",
                      status |-> "accepted", detour |-> "", reason |-> "answer: x -> [1.1.1.1]"]>>
              ELSE <<>>

\* _parse_dns
parse_dns(line) ==
    IF Head(line) = "d"
    THEN <<[domain |-> "api.github.com.", dns_status |-> "got answer:"]>>
    ELSE IF Head(line) = "b"
         THEN <<[domain |-> "x", dns_status |-> "got answer:"]>>
         ELSE <<>>

\* parse_line without the early return after _parse_access: an event keeps
\* every payload its body matches
parse_line_both(raw_line) ==
    IF ~parse_timestamp_prefix(raw_line)
    THEN <<>>
    ELSE LET access == parse_access(raw_line)
             dns == parse_dns(raw_line)
         IN <<[event_type |-> IF access # <<>> THEN "access" ELSE IF dns # <<>> THEN "dns" ELSE "unknown",
               event_time |-> event_time_of(raw_line), raw_hash |-> rstrip(raw_line),
               access |-> access, dns |-> dns]>>

\* parse_line: <<>> for None, else the one-element sequence of the ParsedEvent
parse_line(raw_line) ==
    IF ~parse_timestamp_prefix(raw_line)
    THEN <<>>
    ELSE LET raw_hash == rstrip(raw_line)
             event_time == event_time_of(raw_line)
             access == parse_access(raw_line)
             dns == parse_dns(raw_line)
         IN IF access # <<>>
            THEN <<[event_type |-> "access", event_time |-> event_time, raw_hash |-> raw_hash,
                    access |-> access, dns |-> <<>>]>>
            ELSE IF dns # <<>>
                 THEN <<[event_type |-> "dns", event_time |-> event_time, raw_hash |-> raw_hash,
                         access |-> <<>>, dns |-> dns]>>
                 ELSE <<[event_type |-> "unknown", event_time |-> event_time, raw_hash |-> raw_hash,
                         access |-> <<>>, dns |-> <<>>]>>

\* Settings.from_env defaults of the access filter
default_filter_settings == [drop_api_to_api |-> TRUE, drop_loopback_traffic |-> TRUE,
                            drop_invalid_vless_probe |-> FALSE, exclude_detours |-> {}]

\* str.lower() on the texts of the model
lower(s) ==
    IF s = "LOCALHOST" THEN "localhost"
    ELSE IF s = "DNS" THEN "dns"
    ELSE IF s = "Invalid Request Version" THEN "invalid request version"
    ELSE s

\* the lower-case texts of the model that contain 'invalid request version'
InvalidVersionTexts == {"invalid request version", "read header: invalid request version 71"}

\* src.startswith("127.0.0.1") or src.startswith("[::1]") or src.startswith("::1")
LoopbackSrc(src) == src \in {"127.0.0.1:50000", "127.0.0.10:50000", "[::1]:50000", "::1"}

\* should_drop_event comparing dest_host as it is written
should_drop_event_exact_case(ev, settings) ==
    IF ev.access = <<>>
    THEN FALSE
    ELSE LET a == ev.access[1]
         IN \/ settings.drop_api_to_api /\ a.detour = "api -> api"
            \/ settings.exclude_detours # {} /\ a.detour \in settings.exclude_detours
            \/ /\ settings.drop_invalid_vless_probe
               /\ a.status = "rejected"
               /\ a.dest_raw = "proxy/vless/encoding:"
               /\ lower(a.reason) \in InvalidVersionTexts
            \/ /\ settings.drop_loopback_traffic
               /\ \/ LoopbackSrc(lower(a.src))
                  \/ a.dest_host \in {"127.0.0.1", "localhost", "::1", "[::1]"}

should_drop_event(ev, settings) ==
    IF ev.access = <<>>
    THEN FALSE
    ELSE LET a == ev.access[1]
         IN \/ settings.drop_api_to_api /\ a.detour = "api -> api"
            \/ settings.exclude_detours # {} /\ a.detour \in settings.exclude_detours
            \/ /\ settings.drop_invalid_vless_probe
               /\ a.status = "rejected"
               /\ a.dest_raw = "proxy/vless/encoding:"
               /\ lower(a.reason) \in InvalidVersionTexts
            \/ /\ settings.drop_loopback_traffic
               /\ \/ LoopbackSrc(lower(a.src))
                  \/ lower(a.dest_host) \in {"127.0.0.1", "localhost", "::1", "[::1]"}

level_rank(level) ==
    IF level = "debug" THEN 10
    ELSE IF level = "info" THEN 20
    ELSE IF level = "warning" THEN 30
    ELSE IF level = "error" THEN 40
    ELSE 0

\* Settings.from_env defaults of the error filter
error_min_level == "warning"
error_drop_noise == FALSE

\* parse_error_line: <<>> for None, else the one-element sequence of the event
parse_error_line(raw_line) ==
    IF rstrip(raw_line) = <<>> \/ Head(raw_line) \notin {"e", "w", "i"}
    THEN <<>>
    ELSE <<[level |-> IF Head(raw_line) = "e" THEN "error"
                      ELSE IF Head(raw_line) = "w" THEN "warning" ELSE "info",
            event_time |-> event_time_of(raw_line),
            is_noise |-> FALSE,
            raw_hash |-> rstrip(raw_line)]>>

\* ------------------------------------------------------------------------
\* MySQLIngestor: audit_raw_events and audit_error_events as sequences of rows
\* in id order (a row's id is its position; a deleted row keeps its position
\* with live = FALSE, as AUTO_INCREMENT never hands an id out again);
\* audit_access_events and audit_dns_events as the sets of raw_event_id they
\* hold (raw_event_id is their unique key).
\* ------------------------------------------------------------------------
EmptyStore == [raw |-> <<>>, access |-> {}, dns |-> {}, error |-> <<>>]

\* the ids of the rows of a table that exist
LiveIds(rows) == {i \in 1..Len(rows) : rows[i].live}

\* the id of the lowest row that ever carried this hash, deleted or not
raw_row_id_any(raw, h) == Min({i \in 1..Len(raw) : raw[i].raw_hash = h})

\* the id of the raw row with this hash (LAST_INSERT_ID after the upsert)
raw_row_id(raw, h) == CHOOSE i \in LiveIds(raw) : raw[i].raw_hash = h

\* the row of audit_raw_events an event is written as
raw_row(ev) ==
    [raw_hash |-> ev.raw_hash, event_type |-> ev.event_type, event_time |-> ev.event_time, live |-> TRUE]

\* a plain INSERT on a table whose raw_hash is not unique
insert_raw(raw, ev) == Append(raw, raw_row(ev))

\* INSERT ... ON DUPLICATE KEY UPDATE on audit_raw_events (raw_hash UNIQUE)
upsert_raw(raw, ev) ==
    IF \E i \in LiveIds(raw) : raw[i].raw_hash = ev.raw_hash
    THEN raw
    ELSE Append(raw, raw_row(ev))

\* one turn of the for loop of ingest_events
ingest_event(st, ev) ==
    LET raw == upsert_raw(st.raw, ev)
        id == raw_row_id(raw, ev.raw_hash)
    IN [st EXCEPT !.raw = raw,
                  !.access = IF ev.access # <<>> THEN @ \cup {id} ELSE @,
                  !.dns = IF ev.access = <<>> /\ ev.dns # <<>> THEN @ \cup {id} ELSE @]

RECURSIVE ingest_events(_, _)
ingest_events(st, events) ==
    IF events = <<>> THEN st ELSE ingest_events(ingest_event(st, Head(events)), Tail(events))

\* the counts ingest_events returns
ingest_counts(events) ==
    [raw |-> Len(events),
     access |-> Cardinality({i \in 1..Len(events) : events[i].access # <<>>}),
     dns |-> Cardinality({i \in 1..Len(events) : events[i].access = <<>> /\ events[i].dns # <<>>})]

\* the row of audit_error_events an event is written as
error_row(ev) ==
    [raw_hash |-> ev.raw_hash, level |-> ev.level, event_time |-> ev.event_time, live |-> TRUE]

\* a plain INSERT on a table whose raw_hash is not unique
insert_error(rows, ev) == Append(rows, error_row(ev))

\* INSERT ... ON DUPLICATE KEY UPDATE on audit_error_events (raw_hash UNIQUE)
upsert_error(rows, ev) ==
    IF \E i \in LiveIds(rows) : rows[i].raw_hash = ev.raw_hash
    THEN [i \in 1..Len(rows) |->
             IF rows[i].live /\ rows[i].raw_hash = ev.raw_hash THEN error_row(ev) ELSE rows[i]]
    ELSE Append(rows, error_row(ev))

RECURSIVE ingest_error_events(_, _)
ingest_error_events(rows, events) ==
    IF events = <<>> THEN rows ELSE ingest_error_events(upsert_error(rows, Head(events)), Tail(events))

\* WHERE event_time < (NOW(6) - INTERVAL retention_days DAY), days as numbers
old_ids(rows, now, retention_days) == {i \in LiveIds(rows) : rows[i].event_time < now - retention_days}

\* ORDER BY id LIMIT n
first_ids(ids, n) == {i \in ids : Cardinality({j \in ids : j < i}) < n}

\* DELETE ... WHERE id IN (...)
delete_rows(rows, ids) ==
    [i \in 1..Len(rows) |-> IF i \in ids THEN [rows[i] EXCEPT !.live = FALSE] ELSE rows[i]]

\* the foreign key of audit_access_events and audit_dns_events on
\* raw_event_id: the children of a deleted raw row go with it
cascade_delete(children, ids) == children \ ids

\* the first while loop of prune_old_events: committed chunks of
\* delete_batch_size raw rows until a chunk comes back short
RECURSIVE prune_raw_events(_, _, _, _)
prune_raw_events(st, now, retention_days, delete_batch_size) ==
    LET ids == first_ids(old_ids(st.raw, now, retention_days), delete_batch_size)
        after == [st EXCEPT !.raw = delete_rows(@, ids),
                            !.access = cascade_delete(@, ids),
                            !.dns = cascade_delete(@, ids)]
    IN IF Cardinality(ids) < delete_batch_size
       THEN after
       ELSE prune_raw_events(after, now, retention_days, delete_batch_size)

\* the second while loop: the same on audit_error_events
RECURSIVE prune_error_events(_, _, _, _)
prune_error_events(rows, now, retention_days, delete_batch_size) ==
    LET ids == first_ids(old_ids(rows, now, retention_days), delete_batch_size)
    IN IF Cardinality(ids) < delete_batch_size
       THEN delete_rows(rows, ids)
       ELSE prune_error_events(delete_rows(rows, ids), now, retention_days, delete_batch_size)

\* prune_old_events on the four tables of the model
prune_old_events(st, now, retention_days, delete_batch_size) ==
    IF retention_days <= 0 \/ delete_batch_size <= 0
    THEN st
    ELSE LET pruned == prune_raw_events(st, now, retention_days, delete_batch_size)
         IN [pruned EXCEPT !.error = prune_error_events(@, now, retention_days, delete_batch_size)]

\* load_state: the row of the path; a missing row reads as (None, 0)
NoState == [inode |-> 0, offset |-> 0]

load_state(cs, path) == cs[path]

\* save_state: upsert of the row of the path, committed
save_state(cs, path, inode, offset) == [cs EXCEPT ![path] = [inode |-> inode, offset |-> offset]]

\* ------------------------------------------------------------------------
\* RuntimeConfigManager.  A value - a Python object, or the JSON text of one
\* in column value_json - is a record: t its type, n its number (an int as
\* it is, a float in tenths, a bool as 0 or 1), s its text.
\* ------------------------------------------------------------------------
Val(t, n, s) == [t |-> t, n |-> n, s |-> s]
IntVal(n) == Val("int", n, "")
FloatVal(n) == Val("float", n, "")
NaN == Val("nan", 0, "")
BoolVal(b) == Val("bool", IF b THEN 1 ELSE 0, "")
StrVal(s) == Val("str", 0, s)
\* Python's None, SQL NULL
NoValue == Val("none", 0, "")
\* a value_json text that is not JSON
Garbage == Val("garbage", 0, "")
\* no row under the key
NoRow == Val("norow", 0, "")

\* the keys of EDITABLE_FIELDS the model follows, one of each value type
SchemaKeys == {"AUDIT_BATCH_SIZE", "AUDIT_FLUSH_INTERVAL_SECONDS", "AUDIT_ERROR_MIN_LEVEL",
               "AUDIT_DROP_LOOPBACK_TRAFFIC"}

\* a key that is no runtime-editable field
ForeignKey == "AUDIT_NODE_ID"

AllKeys == SchemaKeys \cup {ForeignKey}

\* EDITABLE_FIELDS; min_value and max_value in tenths, ranged says they are set
EDITABLE_FIELDS ==
    [k \in SchemaKeys |->
        IF k = "AUDIT_BATCH_SIZE"
        THEN [value_type |-> "int", ranged |-> TRUE, min_value |-> 10, max_value |-> 200000, options |-> {}]
        ELSE IF k = "AUDIT_FLUSH_INTERVAL_SECONDS"
        THEN [value_type |-> "float", ranged |-> TRUE, min_value |-> 1, max_value |-> 300, options |-> {}]
        ELSE IF k = "AUDIT_ERROR_MIN_LEVEL"
        THEN [value_type |-> "enum", ranged |-> FALSE, min_value |-> 0, max_value |-> 0,
              options |-> {"debug", "info", "warning", "error"}]
        ELSE [value_type |-> "bool", ranged |-> FALSE, min_value |-> 0, max_value |-> 0, options |-> {}]]

\* str(raw).strip().lower() on the texts of the model
strip_lower(s) == IF s = " ERROR " THEN "error" ELSE s

\* str(raw)
py_str(raw) ==
    IF raw.t = "str" THEN raw.s
    ELSE IF raw.t = "bool" THEN (IF raw.n = 1 THEN "True" ELSE "False")
    ELSE IF raw.t = "nan" THEN "nan"
    ELSE IF raw.t = "none" THEN "None"
    ELSE "number"

\* the texts of the model that int() and float() read as a number
NumericText == {"2"}
text_number(s) == 2

\* int(raw): [ok, n]; not ok when int() raises
py_int(raw) ==
    IF raw.t \in {"int", "bool"} THEN [ok |-> TRUE, n |-> raw.n]
    ELSE IF raw.t = "float" THEN [ok |-> TRUE, n |-> raw.n \div 10]
    ELSE IF raw.t = "str" /\ raw.s \in NumericText THEN [ok |-> TRUE, n |-> text_number(raw.s)]
    ELSE [ok |-> FALSE, n |-> 0]

\* float(raw): [ok, nan, n] with n in tenths; not ok when float() raises
py_float(raw) ==
    IF raw.t \in {"int", "bool"} THEN [ok |-> TRUE, nan |-> FALSE, n |-> raw.n * 10]
    ELSE IF raw.t = "float" THEN [ok |-> TRUE, nan |-> FALSE, n |-> raw.n]
    ELSE IF raw.t = "nan" \/ (raw.t = "str" /\ raw.s = "nan") THEN [ok |-> TRUE, nan |-> TRUE, n |-> 0]
    ELSE IF raw.t = "str" /\ raw.s \in NumericText THEN [ok |-> TRUE, nan |-> FALSE, n |-> text_number(raw.s) * 10]
    ELSE [ok |-> FALSE, nan |-> FALSE, n |-> 0]

\* _check_range: TRUE when it returns, FALSE when it raises.  Both of its
\* comparisons are false on a NaN.
check_range(field, f) ==
    ~(field.ranged /\ ~f.nan /\ f.n < field.min_value) /\ ~(field.ranged /\ ~f.nan /\ f.n > field.max_value)

\* _normalize_value: [ok, value]; not ok when it raises ValueError
normalize_value(field, raw) ==
    IF field.value_type = "bool"
    THEN IF raw.t = "bool" THEN [ok |-> TRUE, value |-> raw]
         ELSE IF raw.t \in {"int", "float"} THEN [ok |-> TRUE, value |-> BoolVal(raw.n # 0)]
         ELSE IF raw.t = "nan" THEN [ok |-> TRUE, value |-> BoolVal(TRUE)]
         ELSE IF strip_lower(py_str(raw)) \in {"1", "true", "yes", "on"} THEN [ok |-> TRUE, value |-> BoolVal(TRUE)]
         ELSE IF strip_lower(py_str(raw)) \in {"0", "false", "no", "off"} THEN [ok |-> TRUE, value |-> BoolVal(FALSE)]
         ELSE [ok |-> FALSE, value |-> NoValue]
    ELSE IF field.value_type = "int"
    THEN LET i == py_int(raw)
         IN IF i.ok /\ check_range(field, py_float(IntVal(i.n)))
            THEN [ok |-> TRUE, value |-> IntVal(i.n)]
            ELSE [ok |-> FALSE, value |-> NoValue]
    ELSE IF field.value_type = "float"
    THEN LET f == py_float(raw)
         IN IF f.ok /\ check_range(field, f)
            THEN [ok |-> TRUE, value |-> IF f.nan THEN NaN ELSE FloatVal(f.n)]
            ELSE [ok |-> FALSE, value |-> NoValue]
    ELSE IF strip_lower(py_str(raw)) \in field.options
         THEN [ok |-> TRUE, value |-> StrVal(strip_lower(py_str(raw)))]
         ELSE [ok |-> FALSE, value |-> NoValue]

\* json.dumps of a normalized value and json.loads of a value_json text: the
\* text of a value reads back as the value (NaN is written and read as NaN);
\* text that is not JSON does not parse
json_dumps(value) == value
json_loads(text) == IF text.t = "garbage" THEN [ok |-> FALSE, value |-> NoValue] ELSE [ok |-> TRUE, value |-> text]

\* table audit_runtime_config with no row
EmptyConfigTable == [k \in AllKeys |-> NoRow]

\* a RuntimeConfigManager after __init__: no override cached, a refresh due
\* (fresh says that less than the TTL has gone by since the last refresh)
RuntimeConfigManager == [overrides |-> [k \in SchemaKeys |-> NoValue], fresh |-> FALSE]

\* the override refresh() keeps for a key out of the rows it has read
loaded_override(table, k) ==
    IF table[k].t \in {"norow", "none"}
    THEN NoValue
    ELSE LET parsed == json_loads(table[k])
         IN IF ~parsed.ok
            THEN NoValue
            ELSE LET value == normalize_value(EDITABLE_FIELDS[k], parsed.value)
                 IN IF value.ok THEN value.value ELSE NoValue

\* refresh with the TTL test the wrong way round: reloads only a fresh cache
refresh_when_fresh(m, table, force) ==
    IF ~force /\ ~m.fresh
    THEN m
    ELSE [overrides |-> [k \in SchemaKeys |-> loaded_override(table, k)], fresh |-> TRUE]

\* refresh: nothing within the TTL unless forced; else the overrides are
\* rebuilt from the rows of the table
refresh(m, table, force) ==
    IF ~force /\ m.fresh
    THEN m
    ELSE [overrides |-> [k \in SchemaKeys |-> loaded_override(table, k)], fresh |-> TRUE]

\* _defaults_from_settings with the Settings.from_env defaults (AUDIT_BATCH_SIZE
\* at the bound of the model)
rc_defaults ==
    [k \in SchemaKeys |->
        IF k = "AUDIT_BATCH_SIZE" THEN IntVal(BatchSize)
        ELSE IF k = "AUDIT_FLUSH_INTERVAL_SECONDS" THEN FloatVal(10)
        ELSE IF k = "AUDIT_ERROR_MIN_LEVEL" THEN StrVal(error_min_level)
        ELSE BoolVal(default_filter_settings.drop_loopback_traffic)]

\* get, after its refresh(): the cached override, else the default, else the fallback
rc_get(m, key, fallback) ==
    IF key \in SchemaKeys /\ m.overrides[key] # NoValue THEN m.overrides[key]
    ELSE IF key \in SchemaKeys THEN rc_defaults[key]
    ELSE fallback

get_int(m, key, fallback) ==
    LET i == py_int(rc_get(m, key, IntVal(fallback))) IN IF i.ok THEN i.n ELSE fallback

get_bool(m, key, fallback) ==
    LET value == rc_get(m, key, BoolVal(fallback))
    IN IF value.t \in {"bool", "int", "float"} THEN value.n # 0
       ELSE strip_lower(py_str(value)) \in {"1", "true", "yes", "on"}

\* runtime_config_upsert: per key the row is upserted and a history row with
\* the old and the new JSON is appended; one commit
RECURSIVE runtime_config_upsert(_, _)
runtime_config_upsert(db, values) ==
    IF values = <<>>
    THEN db
    ELSE LET key == Head(values)[1]
             old_json == IF db.table[key] = NoRow THEN NoValue ELSE db.table[key]
             new_json == json_dumps(Head(values)[2])
         IN runtime_config_upsert(
                [table |-> [db.table EXCEPT ![key] = new_json],
                 history |-> Append(db.history, [config_key |-> key, old_value_json |-> old_json,
                                                  new_value_json |-> new_json])],
                Tail(values))

\* the validation loop of update_items: [ok, normalized]; not ok when a key
\* is unsupported or _normalize_value raises
RECURSIVE update_items_normalize(_, _)
update_items_normalize(values, normalized) ==
    IF values = <<>>
    THEN [ok |-> TRUE, normalized |-> normalized]
    ELSE LET key == Head(values)[1]
         IN IF key \notin SchemaKeys
            THEN [ok |-> FALSE, normalized |-> normalized]
            ELSE LET value == normalize_value(EDITABLE_FIELDS[key], Head(values)[2])
                 IN IF ~value.ok
                    THEN [ok |-> FALSE, normalized |-> normalized]
                    ELSE update_items_normalize(Tail(values), Append(normalized, <<key, value.value>>))

\* ------------------------------------------------------------------------
\* AuditCollector: state
\* ------------------------------------------------------------------------
VARIABLES
    disk,          \* per path: the file system under the path
    appended,      \* per path: number of lines written to the path so far
    tailer,        \* per path: the LogTailer of the running process
    cstate,        \* table collector_state
    store,         \* tables audit_raw_events, access, dns, audit_error_events
    pc,            \* where the worker thread is in run_forever
    stop_event,    \* _stop_event
    final,         \* the flush in progress is the one after the loop
    batch,         \* run_forever local: batch
    error_batch,   \* run_forever local: error_batch
    lines,         \* run_forever local: lines
    error_lines,   \* run_forever local: error_lines
    stats,         \* CollectorStats
    fails,         \* number of exceptions raised so far
    restarts,      \* number of process restarts so far
    flushed,       \* the current iteration completed a flush
    seen,          \* per path: the lines the tailer has returned to this process
    counted,       \* per path: the lines this process counted as filtered
    failed,        \* the events of batches whose flush raised, not yet flushed
    cut,           \* per path: the file was truncated or rotated
    shrunk,        \* per path: the file was truncated since the last save_state of the path
    trunc,         \* tailer scenario: a copytruncate of a file read up to offset k
    rot,           \* tailer scenario: a rotation under an open handle
    rc_table,      \* table audit_runtime_config: per key the value_json of its row
    rc_history,    \* table audit_runtime_config_history
    rc,            \* the RuntimeConfigManager of the process
    knobs,         \* run_forever locals: the knobs derived at the top of the iteration
    rc_call,       \* the update_items call: its values, what it raised, turn 1 once made
    since_write,   \* the override table was written; a TTL has gone by since
    stopper,       \* where the thread that called stop() is
    clock,         \* the monotonic clock, in seconds
    callers,       \* per caller of refresh(): where it is, its now, its force
    rlock,         \* the caller holding RuntimeConfigManager._lock, 0 for none
    last_refresh,  \* RuntimeConfigManager._last_refresh
    last_read,     \* when a caller without force last read the override table, -1 for never
    fn,            \* a function under test: its arguments, its result, done once it has returned
    pre_flush,     \* collector_state as it was when the current _flush was entered
    loop_now,      \* run_forever: now, the time.monotonic() sample of the iteration
    last_flush,    \* run_forever: the sample of the iteration that flushed last
    prune,         \* a call of prune_old_events: its frame, and the time column of the four tables
    lock,          \* AuditCollector._lock, the stats block of _flush under it, a stats_snapshot caller
    health,        \* run_forever: not lines and not error_lines; heartbeats published in the iteration
    cache          \* Redis: the per-minute domain counters and the recent-events list

vars == <<disk, appended, tailer, cstate, store, pc, stop_event, final, batch, error_batch,
          lines, error_lines, stats, fails, restarts, flushed, seen, counted, failed, cut,
          shrunk, trunc, rot, rc_table, rc_history, rc, knobs, rc_call, since_write, stopper,
          clock, callers, rlock, last_refresh, last_read,
          fn, pre_flush, loop_now, last_flush, prune, lock, health, cache>>

fsVars == <<disk, appended, cut, shrunk>>
tailVars == <<trunc, rot>>
\* the state of the other threads and callers of the process
apiVars == <<clock, callers, rlock, last_refresh, last_read, fn>>
\* what no step of the worker writes
sideVars0 == <<rc_table, rc_history, rc_call, stopper, apiVars>>
sideVars1 == <<sideVars0, pre_flush, loop_now, last_flush, prune, lock>>
sideVars == <<sideVars1, health, cache>>
\* what the runtime_config.get calls of the worker write
cfgVars == <<rc, knobs, since_write>>
procVars == <<tailer, pc, stop_event, final, batch, error_batch, lines, error_lines, stats,
              flushed, seen, counted, failed>>

CollectorStats ==
    [lines_read_total |-> 0, parse_fail_total |-> 0, filtered_total |-> 0,
     error_lines_read_total |-> 0, error_parse_fail_total |-> 0, error_filtered_total |-> 0,
     batches_flushed |-> 0, raw_written_total |-> 0, error_written_total |-> 0,
     db_write_fail_total |-> 0, last_error |-> ""]

\* the knobs the top of the loop derives from a RuntimeConfigManager
loop_knobs(m) ==
    [batch_size |-> Max(1, get_int(m, "AUDIT_BATCH_SIZE", BatchSize)),
     error_min_level |-> strip_lower(py_str(rc_get(m, "AUDIT_ERROR_MIN_LEVEL", StrVal(error_min_level)))),
     drop_loopback_traffic |-> get_bool(m, "AUDIT_DROP_LOOPBACK_TRAFFIC",
                                        default_filter_settings.drop_loopback_traffic)]

\* the loop locals of the current iteration
batch_size == knobs.batch_size
min_error_level_rank == level_rank(knobs.error_min_level)
filter_settings == [default_filter_settings EXCEPT !.drop_loopback_traffic = knobs.drop_loopback_traffic]

access_max_lines == Max(64, batch_size * 4)
error_max_lines == Max(32, batch_size * 2)

\* the head of run_forever: seed both tailers from collector_state
run_forever_seed(cs) ==
    [p \in Paths |-> set_state(LogTailer, load_state(cs, p).inode, load_state(cs, p).offset)]

NoTrunc == [phase |-> "none", k |-> 0, size1 |-> 0, since |-> <<>>]
NoRot == [phase |-> "none", since |-> <<>>]
\* no update_items call; raised names the exception a call ended with
NoCall == [values |-> <<>>, raised |-> "", turn |-> 0]
NoWrite == [phase |-> "none", synced |-> FALSE]
\* the tables that prune_old_events prunes, and no call of it
Tables == {"audit_raw_events", "audit_error_events", "audit_auth_events", "audit_runtime_config_history"}
NoPrune == [tables |-> [t \in Tables |-> <<>>], before |-> [t \in Tables |-> <<>>], now |-> 0,
            retention_days |-> 0, delete_batch_size |-> 0, loop |-> 0, total_deleted |-> 0, chunks |-> <<>>]
\* the lock free, the stats block not entered, no stats_snapshot asked for
NoLock == [holders |-> {}, step |-> 0, before |-> <<>>, reader |-> "idle", during |-> FALSE,
           snapshot |-> <<>>]
\* Redis with no key of the node
EmptyCache == [domains |-> <<>>, recent |-> <<>>]
\* the iteration has read nothing yet and published no heartbeat
NoHealth == [idle |-> FALSE, beats |-> 0]
\* no function under test
NoFn == [args |-> <<>>, result |-> <<>>, done |-> FALSE]
\* _ttl_seconds, and the threads that call refresh()
Ttl == 2
Callers == {1, 2}
NoRefreshCall == [pc |-> "idle", now |-> 0, force |-> FALSE]

\* the process and the files at the start of a run
InitProcess ==
    /\ disk = [p \in Paths |-> EmptyDisk]
    /\ appended = [p \in Paths |-> 0]
    /\ cstate = [p \in Paths |-> NoState]
    /\ store = EmptyStore
    /\ tailer = run_forever_seed([p \in Paths |-> NoState])
    /\ pc = "top"
    /\ stop_event = FALSE
    /\ final = FALSE
    /\ batch = <<>>
    /\ error_batch = <<>>
    /\ lines = <<>>
    /\ error_lines = <<>>
    /\ stats = CollectorStats
    /\ fails = 0
    /\ restarts = 0
    /\ flushed = FALSE
    /\ seen = [p \in Paths |-> {}]
    /\ counted = [p \in Paths |-> {}]
    /\ failed = {}
    /\ cut = [p \in Paths |-> FALSE]
    /\ shrunk = [p \in Paths |-> FALSE]
    /\ trunc = NoTrunc
    /\ rot = NoRot
    /\ rc_history = <<>>
    /\ rc = RuntimeConfigManager
    /\ knobs = loop_knobs(RuntimeConfigManager)
    /\ since_write = NoWrite
    /\ stopper = "idle"
    /\ clock = Ttl
    /\ callers = [t \in Callers |-> NoRefreshCall]
    /\ rlock = 0
    /\ last_refresh = 0
    /\ last_read = -1
    /\ pre_flush = [p \in Paths |-> NoState]
    /\ loop_now = Ttl
    /\ last_flush = Ttl
    /\ lock = NoLock
    /\ health = NoHealth
    /\ cache = EmptyCache

\* a run over a database without overrides
Init == InitProcess /\ rc_table = EmptyConfigTable /\ rc_call = NoCall /\ fn = NoFn /\ prune = NoPrune

\* ------------------------------------------------------------------------
\* The log writer and logrotate
\* ------------------------------------------------------------------------
Syms(p) == IF p = "access" THEN AccessSyms ELSE ErrorSyms

LineBound(p) == IF p = "access" THEN MaxLines ELSE MaxErrorLines

\* The worker looks at a file only inside read_new_lines, so a change of the
\* file is taken at the last point before the read that observes it.
ReadPoint(p) == IF p = "access" THEN "read" ELSE "eread"

\* the proxy appends one terminated line to the file at the path
AppendLine(p, c) ==
    /\ pc = ReadPoint(p)
    /\ appended[p] < LineBound(p)
    /\ disk[p].cur # 0
    /\ disk' = [disk EXCEPT ![p].data[disk[p].cur] = @ \o <<c, NL>>]
    /\ appended' = [appended EXCEPT ![p] = @ + 1]
    /\ UNCHANGED <<tailVars, sideVars, cfgVars, cut, shrunk, cstate, store, procVars, fails, restarts>>

\* copytruncate: the file at the path is cut to 0 bytes, same inode
Truncate(p) ==
    /\ pc = ReadPoint(p)
    /\ ~cut[p]
    /\ disk[p].cur # 0
    /\ disk[p].data[disk[p].cur] # <<>>
    /\ disk' = [disk EXCEPT ![p].data[disk[p].cur] = <<>>]
    /\ cut' = [cut EXCEPT ![p] = TRUE]
    /\ shrunk' = [shrunk EXCEPT ![p] = TRUE]
    /\ UNCHANGED <<tailVars, sideVars, cfgVars, appended, cstate, store, procVars, fails, restarts>>

\* rename-and-create rotation: a new empty inode at the path
Rotate(p) ==
    /\ pc = ReadPoint(p)
    /\ ~cut[p]
    /\ disk[p].cur # 0
    /\ disk[p].cur < MaxInode
    /\ disk' = [disk EXCEPT ![p].cur = @ + 1]
    /\ cut' = [cut EXCEPT ![p] = TRUE]
    /\ UNCHANGED <<tailVars, sideVars, cfgVars, appended, shrunk, cstate, store, procVars, fails, restarts>>

\* ------------------------------------------------------------------------
\* AuditCollector.run_forever, one action per step of the loop.  A step that
\* does I/O also has a variant in which the I/O raises.
\* ------------------------------------------------------------------------
LineSet(ls) == {ls[i] : i \in 1..Len(ls)}

RECURSIVE batch_lines(_, _)
\* the for loop over the access lines: parse, filter, append to the batch
batch_lines(b, ls) ==
    IF ls = <<>>
    THEN b
    ELSE LET parsed == parse_line(Head(ls))
         IN IF parsed = <<>>
            THEN batch_lines(b, Tail(ls))
            ELSE IF should_drop_event(parsed[1], filter_settings)
                 THEN batch_lines(b, Tail(ls))
                 ELSE batch_lines(Append(b, parsed[1]), Tail(ls))

\* the error-side filter without its level test
error_dropped_by_noise(ev) == error_drop_noise /\ ev.is_noise

\* the error-side filter of the loop
error_dropped(ev) ==
    \/ level_rank(ev.level) < min_error_level_rank
    \/ error_drop_noise /\ ev.is_noise

RECURSIVE batch_error_lines(_, _)
\* the for loop over the error lines
batch_error_lines(b, ls) ==
    IF ls = <<>>
    THEN b
    ELSE LET parsed == parse_error_line(Head(ls))
         IN IF parsed = <<>>
            THEN batch_error_lines(b, Tail(ls))
            ELSE IF error_dropped(parsed[1])
                 THEN batch_error_lines(b, Tail(ls))
                 ELSE batch_error_lines(Append(b, parsed[1]), Tail(ls))

ParseFails(ls) == Cardinality({i \in 1..Len(ls) : parse_line(ls[i]) = <<>>})
Filtered(ls) ==
    Cardinality({i \in 1..Len(ls) :
        parse_line(ls[i]) # <<>> /\ should_drop_event(parse_line(ls[i])[1], filter_settings)})
ErrorParseFails(ls) == Cardinality({i \in 1..Len(ls) : parse_error_line(ls[i]) = <<>>})
ErrorFiltered(ls) ==
    Cardinality({i \in 1..Len(ls) :
        parse_error_line(ls[i]) # <<>> /\ error_dropped(parse_error_line(ls[i])[1])})

\* the lines of ls the loop counts in filtered_total / error_filtered_total
FilteredSet(ls) ==
    {l \in LineSet(ls) : parse_line(l) # <<>> /\ should_drop_event(parse_line(l)[1], filter_settings)}
ErrorFilteredSet(ls) ==
    {l \in LineSet(ls) : parse_error_line(l) # <<>> /\ error_dropped(parse_error_line(l)[1])}

\* the flush decision without the flush interval
should_flush_by_size(b, eb, due) ==
    (b # <<>> \/ eb # <<>>) /\ (Len(b) >= batch_size \/ Len(eb) >= batch_size)

\* the condition of the flush
should_flush(b, eb, due) ==
    (b # <<>> \/ eb # <<>>) /\ (Len(b) >= batch_size \/ Len(eb) >= batch_size \/ due)

\* the events of the two in-memory batches, tagged with their log
BatchEvents(b, eb) ==
    {<<"access", b[i].raw_hash>> : i \in 1..Len(b)} \cup {<<"error", eb[i].raw_hash>> : i \in 1..Len(eb)}

\* where an exception raised in the loop body or in the final flush lands
raise_target(fin) == IF fin THEN "dead" ELSE "handler"

\* an I/O call of the step raises
Raises ==
    /\ fails < MaxFails
    /\ fails' = fails + 1
    /\ pc' = raise_target(final)

\* a runtime_config.get of the worker: refresh() when the TTL has gone by
RcGet ==
    /\ rc' = refresh(rc, rc_table, FALSE)
    /\ since_write' = [since_write EXCEPT !.synced = @ \/ ~rc.fresh]

\* while not self._stop_event.is_set(): ... re-derive the runtime knobs
\* a loop that never looks at the stop event
loop_condition_ignoring_stop(ev) == TRUE

\* while not self._stop_event.is_set():
loop_condition(ev) == ~ev

LoopTop ==
    /\ pc = "top"
    /\ IF ~loop_condition(stop_event)
       THEN /\ IF batch # <<>> \/ error_batch # <<>>
               THEN pc' = "f_ingest" /\ final' = TRUE
               ELSE pc' = "stopped" /\ final' = FALSE
            /\ UNCHANGED cfgVars
       ELSE /\ pc' = "read" /\ final' = FALSE
            /\ RcGet
            /\ knobs' = loop_knobs(rc')
    /\ flushed' = FALSE
    /\ failed' = IF flushed THEN {} ELSE failed
    /\ pre_flush' = IF pc' = "f_ingest" THEN cstate ELSE pre_flush
    /\ health' = NoHealth
    /\ UNCHANGED <<tailVars, sideVars0, cache, prune, lock, loop_now, last_flush, fsVars, tailer, cstate, store, stop_event, batch, error_batch, lines,
                   error_lines, stats, fails, restarts, seen, counted>>

\* runtime_config.get raises (the override table cannot be read)
LoopTopRaises ==
    /\ pc = "top"
    /\ ~stop_event
    /\ Raises
    /\ UNCHANGED <<tailVars, sideVars, cfgVars, fsVars, tailer, cstate, store, stop_event, final, batch, error_batch, lines,
                   error_lines, stats, restarts, flushed, seen, counted, failed>>

\* lines = self.tailer.read_new_lines(...)
ReadAccess ==
    /\ pc = "read"
    /\ LET r == read_new_lines(tailer["access"], disk["access"], access_max_lines)
       IN /\ tailer' = [tailer EXCEPT !["access"] = r.t]
          /\ lines' = r.out
          /\ seen' = [seen EXCEPT !["access"] = @ \cup LineSet(r.out)]
    /\ pc' = "eread"
    /\ UNCHANGED <<tailVars, sideVars, cfgVars, fsVars, cstate, store, stop_event, final, batch, error_batch,
                   error_lines, stats, fails, restarts, flushed, counted, failed>>

\* the access tailer raises before it has read a line
ReadAccessRaises ==
    /\ pc = "read"
    /\ Raises
    /\ UNCHANGED <<tailVars, sideVars, cfgVars, fsVars, tailer, cstate, store, stop_event, final, batch, error_batch, lines,
                   error_lines, stats, restarts, flushed, seen, counted, failed>>

\* error_lines = self.error_tailer.read_new_lines(...)
ReadError ==
    /\ pc = "eread"
    /\ LET r == read_new_lines(tailer["error"], disk["error"], error_max_lines)
       IN /\ tailer' = [tailer EXCEPT !["error"] = r.t]
          /\ error_lines' = r.out
          /\ seen' = [seen EXCEPT !["error"] = @ \cup LineSet(r.out)]
    /\ pc' = "process"
    /\ UNCHANGED <<tailVars, sideVars, cfgVars, fsVars, cstate, store, stop_event, final, batch, error_batch,
                   lines, stats, fails, restarts, flushed, counted, failed>>

\* the error tailer raises: the access lines of this iteration are dropped
\* with the frame, the access tailer keeps its advanced offset
ReadErrorRaises ==
    /\ pc = "eread"
    /\ Raises
    /\ lines' = <<>>
    /\ UNCHANGED <<tailVars, sideVars, cfgVars, fsVars, tailer, cstate, store, stop_event, final, batch, error_batch,
                   error_lines, stats, restarts, flushed, seen, counted, failed>>

\* the two for loops over the lines read and the flush decision, the
\* counters of stats apart
ProcessLines(due) ==
    /\ pc = "process"
    /\ loop_now' = clock
    /\ health' = [health EXCEPT !.idle = lines = <<>> /\ error_lines = <<>>]
    /\ batch' = batch_lines(batch, lines)
    /\ error_batch' = batch_error_lines(error_batch, error_lines)
    /\ pc' = IF should_flush(batch', error_batch', due) THEN "f_ingest" ELSE "retention"
    /\ pre_flush' = IF pc' = "f_ingest" THEN cstate ELSE pre_flush
    /\ lines' = <<>>
    /\ error_lines' = <<>>
    /\ UNCHANGED <<tailVars, sideVars0, cache, prune, lock, last_flush, cfgVars, fsVars, tailer, cstate, store, stop_event, final,
                   fails, restarts, flushed, seen, failed>>

\* the counters the two for loops raise
ProcessCounts ==
    /\ stats' = [stats EXCEPT
                    !.lines_read_total = @ + Len(lines),
                    !.parse_fail_total = @ + ParseFails(lines),
                    !.filtered_total = @ + Filtered(lines),
                    !.error_lines_read_total = @ + Len(error_lines),
                    !.error_parse_fail_total = @ + ErrorParseFails(error_lines),
                    !.error_filtered_total = @ + ErrorFiltered(error_lines)]
    /\ counted' = [counted EXCEPT !["access"] = @ \cup FilteredSet(lines),
                                  !["error"] = @ \cup ErrorFilteredSet(error_lines)]

ProcessWhen(due) == ProcessLines(due) /\ ProcessCounts

\* the iteration with the flush interval gone by or not
Process == \E due \in BOOLEAN : ProcessWhen(due)

\* ------------------------------------------------------------------------
\* AuditCollector._flush, one action per call it makes
\* ------------------------------------------------------------------------
\* Settings.from_env default of AUDIT_REDIS_ENABLED
redis_enabled == TRUE

\* _publish_health: the heartbeat goes out when the cache is enabled
publish_health(h) == IF redis_enabled THEN [h EXCEPT !.beats = @ + 1] ELSE h

\* an iteration end that publishes nothing
no_idle_heartbeat(h) == h

\* a cleanup that never publishes
no_retention_heartbeat(h, due) == h

\* if (now - last_retention) >= retention_cleanup_interval_seconds: prune,
\* then self._publish_health()
retention_heartbeat(h, due) == IF due THEN publish_health(h) ELSE h

\* if not lines and not error_lines: self._publish_health()
idle_heartbeat(h) == IF h.idle THEN publish_health(h) ELSE h

\* a flush step raised: the batches stay as they are
KeepBatches ==
    /\ failed' = failed \cup BatchEvents(batch, error_batch)
    /\ UNCHANGED <<batch, error_batch>>

\* if batch: raw_counts = self.ingestor.ingest_events(batch, ...)   (commit)
FlushIngest ==
    /\ pc = "f_ingest"
    /\ store' = IF batch # <<>> THEN ingest_events(store, batch) ELSE store
    /\ pc' = "f_cache"
    /\ UNCHANGED <<tailVars, sideVars, cfgVars, fsVars, tailer, cstate, stop_event, final, batch, error_batch, lines,
                   error_lines, stats, fails, restarts, flushed, seen, counted, failed>>

\* ingest_events raises: rollback, nothing of the batch is visible
FlushIngestRaises ==
    /\ pc = "f_ingest"
    /\ batch # <<>>
    /\ Raises
    /\ KeepBatches
    /\ UNCHANGED <<tailVars, sideVars, cfgVars, fsVars, tailer, cstate, store, stop_event, final, lines,
                   error_lines, stats, restarts, flushed, seen, counted>>

\* ------------------------------------------------------------------------
\* RedisCache.update_from_events.  A sorted set is the function from its
\* members to their scores; the domain counters are one such function over
\* the pairs <<minute bucket, dest_host>>; a list is a sequence, head first.
\* ------------------------------------------------------------------------
\* ZINCRBY key 1 member
zincrby(z, member) ==
    IF member \in DOMAIN z THEN [z EXCEPT ![member] = @ + 1] ELSE z @@ (member :> 1)

\* a push of each value at the tail of the list
rpush(list, values) == list \o values

\* LPUSH key value, for each value in turn: the last value pushed is the head
lpush(list, values) ==
    [i \in 1..(Len(values) + Len(list)) |->
        IF i <= Len(values) THEN values[Len(values) - i + 1] ELSE list[i - Len(values)]]

\* LTRIM key start stop, positions counted from 0
ltrim(list, start, stop) ==
    IF start + 1 > Len(list) THEN <<>> ELSE SubSeq(list, start + 1, IF stop + 1 < Len(list) THEN stop + 1 ELSE Len(list))

\* the last position of the recent-events list that is kept
recent_stop == 999

\* the compact JSON of an event
compact(ev) == [event_time |-> ev.event_time, event_type |-> ev.event_type, raw |-> ev.raw_hash]

\* if ev.access is not None ... if a.dest_host:
has_dest_host(ev) == ev.access # <<>> /\ ev.access[1].dest_host # ""

\* the ZINCRBY of the events that have a dest_host, in order
RECURSIVE zincrby_hosts(_, _)
zincrby_hosts(z, events) ==
    IF events = <<>>
    THEN z
    ELSE zincrby_hosts(zincrby(z, <<Head(events).event_time, Head(events).access[1].dest_host>>), Tail(events))

\* the for loop of update_from_events
pipe_events(c, events) ==
    [domains |-> zincrby_hosts(c.domains, SelectSeq(events, has_dest_host)),
     recent |-> lpush(c.recent, [i \in 1..Len(events) |-> compact(events[i])])]

\* if not events: return; the pipeline of the loop, then LTRIM 0 999
update_from_events(c, events) ==
    IF events = <<>>
    THEN c
    ELSE [pipe_events(c, events) EXCEPT !.recent = ltrim(@, 0, recent_stop)]

\* if batch and redis enabled: self.redis_cache.update_from_events(batch)
FlushCache ==
    /\ pc = "f_cache"
    /\ pc' = "f_save"
    /\ cache' = IF batch # <<>> /\ redis_enabled THEN update_from_events(cache, batch) ELSE cache
    /\ RcGet
    /\ UNCHANGED <<tailVars, sideVars1, health, knobs, fsVars, tailer, cstate, store, stop_event, final, batch, error_batch, lines,
                   error_lines, stats, fails, restarts, flushed, seen, counted, failed>>

\* update_from_events raises (pipe.execute with the cache down); _flush has
\* no handler around the call
FlushCacheRaises ==
    /\ pc = "f_cache"
    /\ batch # <<>>
    /\ redis_enabled
    /\ Raises
    /\ KeepBatches
    /\ UNCHANGED <<tailVars, sideVars, cfgVars, fsVars, tailer, cstate, store, stop_event, final, lines,
                   error_lines, stats, restarts, flushed, seen, counted>>

\* inode, offset = self.tailer.state(); save_state(log_path, inode, offset)
FlushSave ==
    /\ pc = "f_save"
    /\ cstate' = save_state(cstate, "access", state(tailer["access"])[1], state(tailer["access"])[2])
    /\ pc' = "f_esave"
    /\ shrunk' = [shrunk EXCEPT !["access"] = FALSE]
    /\ UNCHANGED <<tailVars, sideVars, cfgVars, disk, appended, cut, tailer, store, stop_event, final, batch, error_batch, lines,
                   error_lines, stats, fails, restarts, flushed, seen, counted, failed>>

FlushSaveRaises ==
    /\ pc = "f_save"
    /\ Raises
    /\ KeepBatches
    /\ UNCHANGED <<tailVars, sideVars, cfgVars, fsVars, tailer, cstate, store, stop_event, final, lines,
                   error_lines, stats, restarts, flushed, seen, counted>>

\* error_inode, error_offset = self.error_tailer.state(); save_state(error_log_path, ...)
FlushSaveError ==
    /\ pc = "f_esave"
    /\ cstate' = save_state(cstate, "error", state(tailer["error"])[1], state(tailer["error"])[2])
    /\ pc' = "f_eingest"
    /\ shrunk' = [shrunk EXCEPT !["error"] = FALSE]
    /\ UNCHANGED <<tailVars, sideVars, cfgVars, disk, appended, cut, tailer, store, stop_event, final, batch, error_batch, lines,
                   error_lines, stats, fails, restarts, flushed, seen, counted, failed>>

FlushSaveErrorRaises ==
    /\ pc = "f_esave"
    /\ Raises
    /\ KeepBatches
    /\ UNCHANGED <<tailVars, sideVars, cfgVars, fsVars, tailer, cstate, store, stop_event, final, lines,
                   error_lines, stats, restarts, flushed, seen, counted>>

\* if error_batch: error_written = self.ingestor.ingest_error_events(error_batch, ...)
FlushIngestError ==
    /\ pc = "f_eingest"
    /\ store' = IF error_batch # <<>>
                THEN [store EXCEPT !.error = ingest_error_events(@, error_batch)]
                ELSE store
    /\ pc' = "f_stats"
    /\ UNCHANGED <<tailVars, sideVars, cfgVars, fsVars, tailer, cstate, stop_event, final, batch, error_batch, lines,
                   error_lines, stats, fails, restarts, flushed, seen, counted, failed>>

FlushIngestErrorRaises ==
    /\ pc = "f_eingest"
    /\ error_batch # <<>>
    /\ Raises
    /\ KeepBatches
    /\ UNCHANGED <<tailVars, sideVars, cfgVars, fsVars, tailer, cstate, store, stop_event, final, lines,
                   error_lines, stats, restarts, flushed, seen, counted>>

\* with self._lock: the counters of the flush
flush_stats(st, b, eb) ==
    [st EXCEPT !.batches_flushed = @ + 1,
               !.raw_written_total = @ + (IF b # <<>> THEN ingest_counts(b).raw ELSE 0),
               !.error_written_total = @ + Len(eb),
               !.last_error = ""]

\* the stats block, self._publish_health(), return; then in the loop
\* batch = [], error_batch = [], last_flush = now (after the loop: return)
FlushFinish ==
    /\ pc = "f_stats"
    /\ stats' = flush_stats(stats, batch, error_batch)
    /\ batch' = <<>>
    /\ error_batch' = <<>>
    /\ flushed' = TRUE
    /\ pc' = IF final THEN "stopped" ELSE "retention"
    /\ last_flush' = IF final THEN last_flush ELSE loop_now
    /\ health' = publish_health(health)
    /\ RcGet
    /\ UNCHANGED <<tailVars, sideVars0, cache, prune, lock, pre_flush, loop_now, knobs, fsVars, tailer, cstate, store, stop_event, final, lines,
                   error_lines, fails, restarts, seen, counted, failed>>

\* the stats block runs, then _publish_health raises
FlushFinishRaises ==
    /\ pc = "f_stats"
    /\ redis_enabled
    /\ stats' = flush_stats(stats, batch, error_batch)
    /\ Raises
    /\ KeepBatches
    /\ UNCHANGED <<tailVars, sideVars, cfgVars, fsVars, tailer, cstate, store, stop_event, final, lines,
                   error_lines, restarts, flushed, seen, counted>>

\* ------------------------------------------------------------------------
\* The rest of the iteration, the exception handler, stop and restart
\* ------------------------------------------------------------------------
\* the retention cycle (every stored event is inside the retention window)
\* and the idle heartbeat; then the next iteration
IterationEndWhen(due) ==
    /\ pc = "retention"
    /\ lines' = <<>>
    /\ error_lines' = <<>>
    /\ pc' = "top"
    /\ health' = idle_heartbeat(retention_heartbeat(health, due))
    /\ RcGet
    /\ UNCHANGED <<tailVars, sideVars1, cache, knobs, fsVars, tailer, cstate, store, stop_event, final, batch, error_batch,
                   stats, fails, restarts, flushed, seen, counted, failed>>

\* whether the cleanup interval has gone by depends on the clock
IterationEnd == \E due \in BOOLEAN : IterationEndWhen(due)

\* prune_old_events or the idle _publish_health raises
IterationEndRaises ==
    /\ pc = "retention"
    /\ Raises
    /\ UNCHANGED <<tailVars, sideVars, cfgVars, fsVars, tailer, cstate, store, stop_event, final, batch, error_batch, lines,
                   error_lines, stats, restarts, flushed, seen, counted, failed>>

\* except Exception as err: count, record, publish health, sleep
handler_stats(st) == [st EXCEPT !.db_write_fail_total = @ + 1, !.last_error = "err"]

Handler ==
    /\ pc = "handler"
    /\ stats' = handler_stats(stats)
    /\ lines' = <<>>
    /\ error_lines' = <<>>
    /\ pc' = "top"
    /\ health' = publish_health(health)
    /\ RcGet
    /\ UNCHANGED <<tailVars, sideVars1, cache, knobs, fsVars, tailer, cstate, store, stop_event, final, batch, error_batch,
                   fails, restarts, flushed, seen, counted, failed>>

\* self._publish_health() inside the except block raises: the exception
\* leaves run_forever and the thread ends
HandlerRaises ==
    /\ pc = "handler"
    /\ fails < MaxFails
    /\ fails' = fails + 1
    /\ stats' = handler_stats(stats)
    /\ lines' = <<>>
    /\ error_lines' = <<>>
    /\ pc' = "dead"
    /\ UNCHANGED <<tailVars, sideVars, cfgVars, fsVars, tailer, cstate, store, stop_event, final, batch, error_batch,
                   restarts, flushed, seen, counted, failed>>

\* stop(): self._stop_event.set()
RequestStop ==
    /\ ~stop_event
    /\ pc = "top"
    /\ stop_event' = TRUE
    /\ UNCHANGED <<tailVars, sideVars, cfgVars, fsVars, tailer, cstate, store, pc, final, batch, error_batch, lines,
                   error_lines, stats, fails, restarts, flushed, seen, counted, failed>>

\* A kill between two commits leaves the same tables as a kill right after
\* the first of them, so kills are taken after each commit, between
\* iterations, and after the thread has ended.
KillPoints == {"top", "f_cache", "f_esave", "f_eingest", "f_stats", "stopped", "dead"}

\* the process is killed (or has ended) and a new one starts: everything in
\* memory is gone, the tailers are seeded from collector_state
Restart ==
    /\ restarts < MaxRestarts
    /\ pc \in KillPoints
    /\ restarts' = restarts + 1
    /\ tailer' = run_forever_seed(cstate)
    /\ pc' = "top"
    /\ stop_event' = FALSE
    /\ final' = FALSE
    /\ batch' = <<>>
    /\ error_batch' = <<>>
    /\ lines' = <<>>
    /\ error_lines' = <<>>
    /\ stats' = CollectorStats
    /\ flushed' = FALSE
    /\ seen' = [p \in Paths |-> {}]
    /\ counted' = [p \in Paths |-> {}]
    /\ failed' = {}
    /\ rc' = RuntimeConfigManager
    /\ knobs' = loop_knobs(RuntimeConfigManager)
    /\ last_flush' = clock
    /\ health' = NoHealth
    /\ UNCHANGED <<tailVars, sideVars0, cache, prune, lock, pre_flush, loop_now, since_write, fsVars, cstate, store, fails>>

\* the steps of the worker in which no call raises
WorkerSteps ==
    \/ LoopTop
    \/ ReadAccess
    \/ ReadError
    \/ Process
    \/ FlushIngest
    \/ FlushCache
    \/ FlushSave
    \/ FlushSaveError
    \/ FlushIngestError
    \/ FlushFinish
    \/ IterationEnd

\* the steps in which a call raises, and the exception handler
WorkerRaises ==
    \/ LoopTopRaises
    \/ ReadAccessRaises
    \/ ReadErrorRaises
    \/ FlushIngestRaises
    \/ FlushCacheRaises
    \/ FlushSaveRaises
    \/ FlushSaveErrorRaises
    \/ FlushIngestErrorRaises
    \/ FlushFinishRaises
    \/ IterationEndRaises
    \/ Handler
    \/ HandlerRaises

\* The collector over two append-only logs, with failing I/O, stop and restart
Next ==
    \/ WorkerSteps
    \/ WorkerRaises
    \/ \E p \in Paths : \E c \in Syms(p) : AppendLine(p, c)
    \/ RequestStop
    \/ Restart

Spec == Init /\ [][Next]_vars

\* The collector over logs that are also truncated and rotated; no call raises
NextRotate ==
    \/ WorkerSteps
    \/ \E p \in Paths : \E c \in Syms(p) : AppendLine(p, c)
    \/ \E p \in Paths : Truncate(p)
    \/ \E p \in Paths : Rotate(p)
    \/ RequestStop
    \/ Restart

SpecRotate == Init /\ [][NextRotate]_vars

\* ------------------------------------------------------------------------
\* One LogTailer alone on the access path, polled by a caller, over a file
\* written byte by byte (so that a line can be on disk unterminated), cut
\* and rotated at any time.
\* ------------------------------------------------------------------------
TP == "access"

Bytes == {"a", NL}

collVars == <<appended, cut, shrunk, cstate, store, pc, stop_event, final, batch, error_batch,
              lines, error_lines, stats, fails, restarts, flushed, seen, counted, failed,
              sideVars, cfgVars>>

\* the writer appends one byte to the file at the path
TWrite(c) ==
    /\ st_size(disk[TP]) < MaxFileBytes
    /\ disk' = [disk EXCEPT ![TP].data[disk[TP].cur] = Append(@, c)]
    /\ UNCHANGED <<tailer, trunc, rot, collVars>>

\* copytruncate of the file at the path
TTruncate ==
    /\ st_size(disk[TP]) > 0
    /\ disk' = [disk EXCEPT ![TP].data[disk[TP].cur] = <<>>]
    /\ trunc' = IF trunc.phase = "none" /\ rot.phase = "none"
                   /\ tailer[TP].fh = disk[TP].cur /\ tailer[TP].offset > 0
                THEN [phase |-> "cut", k |-> tailer[TP].offset, size1 |-> 0, since |-> <<>>]
                ELSE [NoTrunc EXCEPT !.phase = "void"]
    /\ rot' = IF rot.phase = "none" THEN rot ELSE [NoRot EXCEPT !.phase = "void"]
    /\ UNCHANGED <<tailer, collVars>>

\* rotation of the file at the path: a new, empty inode
TRotate ==
    /\ disk[TP].cur < MaxInode
    /\ disk' = [disk EXCEPT ![TP].cur = @ + 1]
    /\ rot' = IF rot.phase # "void" /\ trunc.phase = "none" /\ tailer[TP].fh # 0
              THEN [phase |-> "rotated", since |-> <<>>]
              ELSE [NoRot EXCEPT !.phase = "void"]
    /\ trunc' = IF trunc.phase = "none" THEN trunc ELSE [NoTrunc EXCEPT !.phase = "void"]
    /\ UNCHANGED <<tailer, collVars>>

\* the caller polls: read_new_lines(max_lines)
TRead(max_lines) ==
    LET r == read_new_lines(tailer[TP], disk[TP], max_lines)
    IN /\ tailer' = [tailer EXCEPT ![TP] = r.t]
       /\ trunc' = IF trunc.phase = "cut"
                   THEN [trunc EXCEPT !.phase = "polled", !.size1 = st_size(disk[TP]),
                                      !.since = Concat(r.out)]
                   ELSE IF trunc.phase = "polled"
                        THEN [trunc EXCEPT !.since = @ \o Concat(r.out)]
                        ELSE trunc
       /\ rot' = IF rot.phase = "rotated" /\ r.out = <<>>
                 THEN [rot EXCEPT !.phase = "detected"]
                 ELSE IF rot.phase = "detected"
                      THEN [rot EXCEPT !.since = @ \o Concat(r.out)]
                      ELSE rot
       /\ UNCHANGED <<disk, collVars>>

NextTailer ==
    \/ \E c \in Bytes : TWrite(c)
    \/ TTruncate
    \/ TRotate
    \/ \E m \in 1..MaxPoll : TRead(m)

SpecTailer == Init /\ [][NextTailer]_vars

\* ------------------------------------------------------------------------
\* AuditCollector.stop() called from another thread while the worker runs:
\* set the event, join the worker for at most 10 seconds, close.
\* ------------------------------------------------------------------------
WorkerEnded == pc \in {"stopped", "dead"}

stopRest == <<tailVars, fsVars, cstate, store, pc, final, batch, error_batch, lines, error_lines, stats,
              fails, restarts, flushed, seen, counted, failed, rc_table, rc_history, rc_call, cfgVars, apiVars, pre_flush, loop_now, last_flush, prune, lock, health, cache>>

\* self._stop_event.set(), at any point of a running worker
StopCall ==
    /\ stopper = "idle"
    /\ ~WorkerEnded
    /\ stop_event' = TRUE
    /\ stopper' = "joining"
    /\ UNCHANGED <<tailer, stopRest>>

\* self._thread.join(timeout=10) returns because the worker has ended
JoinReturns ==
    /\ stopper = "joining"
    /\ WorkerEnded
    /\ stopper' = "closing"
    /\ UNCHANGED <<tailer, stop_event, stopRest>>

\* the steps of the worker that can last longer than the join waits: the
\* DB and cache calls of a flush (the connection has no read timeout) and
\* the pruning loops
SlowPoints == {"f_ingest", "f_cache", "f_save", "f_esave", "f_eingest", "f_stats", "retention"}

\* join returns because 10 seconds have gone by; the worker is still in a
\* call of its iteration or of its final flush
JoinTimesOut ==
    /\ stopper = "joining"
    /\ pc \in SlowPoints
    /\ stopper' = "closing"
    /\ UNCHANGED <<tailer, stop_event, stopRest>>

\* self.close(): both tailer handles and the DB connection are closed.  A
\* worker still running reopens the files with its next read and
\* reconnects with its next _ensure_conn.
Close ==
    /\ stopper = "closing"
    /\ tailer' = [p \in Paths |-> close(tailer[p])]
    /\ stopper' = "closed"
    /\ UNCHANGED <<stop_event, stopRest>>

NextStop ==
    \/ WorkerSteps
    \/ WorkerRaises
    \/ \E p \in Paths : \E c \in Syms(p) : AppendLine(p, c)
    \/ StopCall
    \/ JoinReturns
    \/ JoinTimesOut
    \/ Close

SpecStop == Init /\ [][NextStop]_vars

\* ------------------------------------------------------------------------
\* The collector while the admin surface changes overrides: the loop over
\* two append-only logs, no call raising, the override table written by
\* update_items of the API process, the TTL of the collector's cache expiring.
\* ------------------------------------------------------------------------
\* the rows AUDIT_ERROR_MIN_LEVEL can have when the collector starts
InitialLevels == {NoRow, json_dumps(StrVal("info")), json_dumps(StrVal("error"))}

InitConfig ==
    /\ InitProcess
    /\ rc_call = NoCall
    /\ fn = NoFn
    /\ prune = NoPrune
    /\ \E level \in InitialLevels : rc_table = [EmptyConfigTable EXCEPT !["AUDIT_ERROR_MIN_LEVEL"] = level]

\* the valid single-key updates the admin surface makes
ConfigWrites == {<<"AUDIT_BATCH_SIZE", IntVal(1)>>,
                 <<"AUDIT_ERROR_MIN_LEVEL", StrVal("info")>>,
                 <<"AUDIT_ERROR_MIN_LEVEL", StrVal("error")>>,
                 <<"AUDIT_DROP_LOOPBACK_TRAFFIC", BoolVal(FALSE)>>}

configRest == <<tailVars, fsVars, tailer, cstate, store, pc, stop_event, final, batch, error_batch, lines,
                error_lines, stats, fails, restarts, flushed, seen, counted, failed, knobs, rc_call, stopper, apiVars, pre_flush, loop_now, last_flush, prune, lock, health, cache>>

\* update_items of the API process commits one override
ConfigWrite(kv) ==
    /\ Len(rc_history) < MaxWrites
    /\ LET db == runtime_config_upsert([table |-> rc_table, history |-> rc_history], <<kv>>)
       IN rc_table' = db.table /\ rc_history' = db.history
    /\ since_write' = [phase |-> "written", synced |-> FALSE]
    /\ UNCHANGED <<rc, configRest>>

\* the TTL has gone by since the last refresh of the collector's manager
TtlExpires ==
    /\ rc.fresh
    /\ rc' = [rc EXCEPT !.fresh = FALSE]
    /\ UNCHANGED <<rc_table, rc_history, since_write, configRest>>

\* one TTL has gone by since the last write of the table: a cache not
\* refreshed since the write is older than the TTL
TtlSinceWrite ==
    /\ since_write.phase = "written"
    /\ since_write' = [since_write EXCEPT !.phase = "elapsed"]
    /\ rc' = IF since_write.synced THEN rc ELSE [rc EXCEPT !.fresh = FALSE]
    /\ UNCHANGED <<rc_table, rc_history, configRest>>

NextConfig ==
    \/ WorkerSteps
    \/ \E p \in Paths : \E c \in Syms(p) : AppendLine(p, c)
    \/ \E kv \in ConfigWrites : ConfigWrite(kv)
    \/ TtlExpires
    \/ TtlSinceWrite

SpecConfig == InitConfig /\ [][NextConfig]_vars

\* ------------------------------------------------------------------------
\* The collector behind a busy proxy and a failing database: access lines
\* arrive in bursts between two polls, ingest_events may raise.
\* ------------------------------------------------------------------------
\* the proxy appends one more accepted access line before the next poll
BurstLine ==
    /\ pc = "read"
    /\ appended["access"] < MaxBurst
    /\ disk' = [disk EXCEPT !["access"].data[disk["access"].cur] = @ \o <<"a", NL>>]
    /\ appended' = [appended EXCEPT !["access"] = @ + 1]
    /\ UNCHANGED <<tailVars, sideVars, cfgVars, cut, shrunk, cstate, store, procVars, fails, restarts>>

NextBurst ==
    \/ WorkerSteps
    \/ BurstLine
    \/ FlushIngestRaises
    \/ Handler

SpecBurst == Init /\ [][NextBurst]_vars

\* ------------------------------------------------------------------------
\* The store alone: ingest_events, ingest_error_events and prune_old_events
\* called in any order with any arguments.  batch and error_batch hold the
\* last batch ingested since the last pruning.
\* ------------------------------------------------------------------------
StoreSyms == {"a", "d", "u"}
StoreErrorSyms == {"e", "w"}

\* the batches of up to MaxBatch events parsed from lines over a set of symbols
RECURSIVE LinesOver(_, _)
LinesOver(syms, n) ==
    IF n = 0 THEN {<<>>} ELSE {Append(ls, <<c, NL>>) : ls \in LinesOver(syms, n - 1), c \in syms}

AccessBatches ==
    {[i \in 1..Len(ls) |-> parse_line(ls[i])[1]] : ls \in UNION {LinesOver(StoreSyms, n) : n \in 1..MaxBatch}}
ErrorBatches ==
    {[i \in 1..Len(ls) |-> parse_error_line(ls[i])[1]] :
        ls \in UNION {LinesOver(StoreErrorSyms, n) : n \in 1..MaxBatch}}

storeRest == <<disk, appended, tailer, cstate, pc, stop_event, final, lines, error_lines, stats, fails,
               restarts, flushed, seen, counted, failed, cut, shrunk, tailVars, sideVars, cfgVars>>

StoreIngest(events) ==
    /\ Len(store.raw) + Len(events) <= MaxRows
    /\ store' = ingest_events(store, events)
    /\ batch' = events
    /\ UNCHANGED <<error_batch, storeRest>>

StoreIngestError(events) ==
    /\ Len(store.error) + Len(events) <= MaxRows
    /\ store' = [store EXCEPT !.error = ingest_error_events(@, events)]
    /\ error_batch' = events
    /\ UNCHANGED <<batch, storeRest>>

StorePrune(now, retention_days, delete_batch_size) ==
    /\ store' = prune_old_events(store, now, retention_days, delete_batch_size)
    /\ batch' = <<>>
    /\ error_batch' = <<>>
    /\ UNCHANGED storeRest

NextStore ==
    \/ \E events \in AccessBatches : StoreIngest(events)
    \/ \E events \in ErrorBatches : StoreIngestError(events)
    \/ \E now \in 3..MaxDay : \E retention_days \in 0..1 : \E delete_batch_size \in 0..MaxDeleteBatch :
          StorePrune(now, retention_days, delete_batch_size)

SpecStore == Init /\ [][NextStore]_vars

\* ------------------------------------------------------------------------
\* Properties
\* ------------------------------------------------------------------------
\* number of rows of the table of log p that carry raw_hash h
RowCount(st, p, h) ==
    IF p = "access"
    THEN Cardinality({i \in LiveIds(st.raw) : st.raw[i].raw_hash = h})
    ELSE Cardinality({i \in LiveIds(st.error) : st.error[i].raw_hash = h})

\* the line has a valid timestamp prefix in the dialect of log p
Stamped(p, l) == IF p = "access" THEN parse_line(l) # <<>> ELSE parse_error_line(l) # <<>>

\* the line parses and passes the filter of log p, so the loop batches it
Storable(p, l) ==
    IF p = "access"
    THEN parse_line(l) # <<>> /\ ~should_drop_event(parse_line(l)[1], filter_settings)
    ELSE parse_error_line(l) # <<>> /\ ~error_dropped(parse_error_line(l)[1])

\* the terminated lines of content that end at or below byte offset off
LinesBelow(content, off) ==
    {readline(content, q) : q \in {q \in 0..(off - 1) :
        /\ q < Len(content)
        /\ (q = 0 \/ content[q] = NL)
        /\ q + Len(readline(content, q)) <= off
        /\ content[q + Len(readline(content, q))] = NL}}

FileOf(p) == disk[p].data[disk[p].cur]

\* C1 (No-skip): after a successful flush, every line with a valid timestamp
\* prefix that a tailer has returned to this process - also in an iteration
\* that raised - is counted as filtered or is in the store exactly once.
NoSkip ==
    flushed =>
        \A p \in Paths : \A l \in seen[p] :
            Stamped(p, l) => (l \in counted[p] \/ RowCount(store, p, rstrip(l)) = 1)

\* C2: whenever save_state commits a new collector_state row for a log, the
\* events of that log's in-memory batch (the events parsed from the bytes
\* the offset covers) are already committed, for the access log and for the
\* error log alike.
CommitBeforeOffset ==
    [][\A p \in Paths :
          cstate'[p] # cstate[p] =>
              \A e \in BatchEvents(batch, error_batch) :
                  e[1] = p => RowCount(store', p, e[2]) >= 1]_vars

\* the process has just been restarted: both tailers are seeded, none has read
Seeded == restarts > 0 /\ pc = "top" /\ \A p \in Paths : tailer[p].fh = 0

\* C3 (flush atomicity across a kill): after a kill and restart no line that
\* the loop would batch lies below the offset the tailer is seeded with
\* unless its event is in the store, so the replay covers every such line.
ReplayCoversUnstored ==
    Seeded =>
        \A p \in Paths :
            (~cut[p] /\ tailer[p].offset <= Len(FileOf(p))) =>
                \A l \in LinesBelow(FileOf(p), tailer[p].offset) :
                    Storable(p, l) => RowCount(store, p, rstrip(l)) >= 1

\* the restarted process has read the access log to its end and flushed
Drained ==
    /\ restarts > 0
    /\ pc = "top"
    /\ batch = <<>>
    /\ tailer["access"].fh # 0
    /\ tailer["access"].offset = Len(FileOf("access"))

\* C4: after restarts interleaved with appends, once the log is read to its
\* end and flushed, the distinct raw_hash values in the store are as many as
\* the distinct terminated lines appended that the loop batches.
DistinctHashesMatchLines ==
    Drained =>
        Cardinality({store.raw[i].raw_hash : i \in LiveIds(store.raw)})
            = Cardinality({rstrip(l) : l \in {l \in LinesBelow(FileOf("access"), Len(FileOf("access"))) :
                                                Storable("access", l)}})

\* C5: the worker thread ends only after stop has been requested; no
\* exception raised inside an iteration ends it.
WorkerSurvives == pc \in {"stopped", "dead"} => stop_event

\* C6: a failure of the cache calls of a flush (update_from_events after the
\* ingest, publish_health after the stats) never takes the flush to the
\* exception path.
CacheFailureNonFatal ==
    [][(pc \in {"f_cache", "f_stats"} /\ restarts' = restarts) => pc' \notin {"handler", "dead"}]_vars

ReturnedIsPrefix(since) ==
    /\ tailer[TP].offset <= Len(FileOf(TP))
    /\ since = SubSeq(FileOf(TP), 1, tailer[TP].offset)

RotationReadsNewFile ==
    rot.phase = "detected" =>
        /\ tailer[TP].fh = disk[TP].cur
        /\ state(tailer[TP])[1] = disk[TP].cur
        /\ ReturnedIsPrefix(rot.since)

\* the tailer has returned bytes of the new file after a rotation
ReadAfterRotation == rot.phase = "detected" /\ rot.since # <<>>

\* C10: the events of a batch whose flush raised stay in the in-memory
\* batches (so the next flush attempt carries them) until a flush succeeds,
\* and after that flush each of them is in the store exactly once.
FailedBatchRedriven ==
    /\ (~flushed /\ pc \notin {"stopped", "dead"}) => failed \subseteq BatchEvents(batch, error_batch)
    /\ flushed => \A e \in failed : RowCount(store, e[1], e[2]) = 1

\* a flush succeeded after an earlier attempt on the same events had raised
RedrivenFlushSucceeded == flushed /\ failed # {} /\ ~final

\* C11 (idempotent upsert): run a second time with the same batch,
\* ingest_events and ingest_error_events leave the number of rows of the four
\* tables as it is, give every raw_hash of the batch the raw row id it had,
\* and leave every child row on an existing raw row.
IdempotentUpsert ==
    LET again == ingest_events(store, batch)
        error_again == ingest_error_events(store.error, error_batch)
    IN /\ Cardinality(LiveIds(again.raw)) = Cardinality(LiveIds(store.raw))
       /\ Cardinality(again.access) = Cardinality(store.access)
       /\ Cardinality(again.dns) = Cardinality(store.dns)
       /\ Cardinality(LiveIds(error_again)) = Cardinality(LiveIds(store.error))
       /\ \A i \in 1..Len(batch) :
              raw_row_id(again.raw, batch[i].raw_hash) = raw_row_id(store.raw, batch[i].raw_hash)
       /\ again.access \cup again.dns \subseteq LiveIds(again.raw)

\* both kinds of batch were ingested into tables that already held other
\* rows, a deleted one among them
ReingestedOverOtherRows ==
    /\ batch # <<>>
    /\ error_batch # <<>>
    /\ Cardinality(LiveIds(store.raw)) > Len(batch)
    /\ \E i \in 1..Len(store.error) : ~store.error[i].live

\* C12 (store invariants): raw_hash is unique among the raw rows, every
\* access or dns row is on an existing raw row, and a raw row of type
\* unknown has no child.
StoreInvariants ==
    /\ \A i, j \in LiveIds(store.raw) : store.raw[i].raw_hash = store.raw[j].raw_hash => i = j
    /\ store.access \cup store.dns \subseteq LiveIds(store.raw)
    /\ \A i \in LiveIds(store.raw) :
           store.raw[i].event_type = "unknown" => i \notin store.access \cup store.dns

\* a line was ingested again after pruning had deleted its raw row and child
ReingestedAfterPrune ==
    \E i \in 1..Len(store.raw) : \E j \in LiveIds(store.raw) :
        /\ ~store.raw[i].live
        /\ store.raw[j].raw_hash = store.raw[i].raw_hash
        /\ j \in store.access \cup store.dns

\* C13: a worker that has ended after stop was requested while it ran has
\* made its final flush attempt, unless both batches were empty when it left
\* the loop.
FinalFlushOnStop ==
    (stop_event /\ WorkerEnded) => (final \/ (batch = <<>> /\ error_batch = <<>>))

\* C14: stop() closes the DB connection and the tailer handles only after
\* the worker has finished its iteration and its final flush.
CloseAfterWorkerEnded == stopper = "closed" => WorkerEnded

\* the knobs an iteration derives once the rows of the table are loaded
TableKnobs == loop_knobs(refresh(rc, rc_table, TRUE))

\* the AUDIT_ERROR_MIN_LEVEL row has not been written during the run
MinLevelUnchanged ==
    \A i \in 1..Len(rc_history) : rc_history[i].config_key # "AUDIT_ERROR_MIN_LEVEL"

\* C15 (level filter): with min_level info, warning or error in effect for
\* the run, no row of audit_error_events has a level ranked below it.
LevelFilter ==
    MinLevelUnchanged =>
        \A i \in LiveIds(store.error) :
            level_rank(store.error[i].level) >= level_rank(TableKnobs.error_min_level)

\* with min_level info in effect an [Info] line was stored
InfoStoredAtMinInfo ==
    /\ MinLevelUnchanged
    /\ TableKnobs.error_min_level = "info"
    /\ \E i \in LiveIds(store.error) : store.error[i].level = "info"

\* C19: once a refresh TTL has gone by since a write of the override table,
\* every iteration that starts derives its knobs from the rows written, in
\* the running process.
KnobsFollowOverrides ==
    [][(since_write.phase = "elapsed" /\ pc = "top" /\ pc' = "read") => knobs' = TableKnobs]_vars

\* an iteration runs with a batch size written while the process was running
NewBatchSizeInEffect ==
    /\ since_write.phase = "elapsed"
    /\ restarts = 0
    /\ pc = "read"
    /\ knobs.batch_size = 1
    /\ rc_defaults["AUDIT_BATCH_SIZE"] # IntVal(1)

\* C16 (backpressure bound): the in-memory access batch never holds more
\* than 4 x batch_size events.
BatchWithinFourBatchSizes == Len(batch) <= 4 * batch_size

\* ------------------------------------------------------------------------
\* The collector over an access log whose lines all differ (each carries
\* its own timestamp) and an error log, with failing I/O and restart
\* ------------------------------------------------------------------------
OrderSyms == {"a", "d"}

\* the bytes of the file at the access path
AccessData == disk["access"].data[disk["access"].cur]

\* the proxy appends a line the file does not hold yet
OrderLine(c) ==
    /\ \A k \in 1..Len(AccessData) : AccessData[k] # c
    /\ AppendLine("access", c)

NextOrder ==
    \/ WorkerSteps
    \/ WorkerRaises
    \/ \E c \in OrderSyms : OrderLine(c)
    \/ \E c \in ErrorSyms : AppendLine("error", c)
    \/ Restart

SpecOrder == Init /\ [][NextOrder]_vars

\* the byte offset at which the line with this content starts in the file
OffsetOf(h) == (CHOOSE k \in 1..Len(AccessData) : <<AccessData[k]>> = h) - 1

InFile(h) == \E k \in 1..Len(AccessData) : <<AccessData[k]>> = h

\* C17 (file order): of two stored lines of the access log, the one at the
\* lower byte offset has the lower row id, that is, it was inserted first.
StoredInByteOrder ==
    \A i, j \in LiveIds(store.raw) :
        (i < j /\ InFile(store.raw[i].raw_hash) /\ InFile(store.raw[j].raw_hash))
            => OffsetOf(store.raw[i].raw_hash) < OffsetOf(store.raw[j].raw_hash)

\* both lines of the file are stored
BothLinesStored == Len(store.raw) = 2 /\ Len(AccessData) = 4

\* ------------------------------------------------------------------------
\* The RuntimeConfigManager of the API process over table
\* audit_runtime_config: update_items calls, get calls and the TTL
\* ------------------------------------------------------------------------
\* what a request body carries as the value of a key
RawValues == {IntVal(1), IntVal(0), FloatVal(500), StrVal("nan"), StrVal(" ERROR ")}

\* the value_json texts of a row written by another hand than update_items
StoredRows == {Garbage, NoValue, IntVal(0), FloatVal(500), StrVal("loud"), StrVal("error")}

ItemPairs == AllKeys \X RawValues

\* the dicts of at most MaxItems entries, in insertion order
RECURSIVE ItemBatchesOf(_)
ItemBatchesOf(n) ==
    IF n = 0
    THEN {<<>>}
    ELSE ItemBatchesOf(n - 1)
            \cup {Append(b, kv) : b \in {c \in ItemBatchesOf(n - 1) : Len(c) = n - 1},
                                  kv \in ItemPairs}

DistinctKeys(b) == \A i, j \in 1..Len(b) : i # j => b[i][1] # b[j][1]

ItemBatches == {b \in ItemBatchesOf(MaxItems) : b # <<>> /\ DistinctKeys(b)}

\* the tables the API process can start over: at most one row
InitialTables ==
    {EmptyConfigTable} \cup {[EmptyConfigTable EXCEPT ![k] = row] : k \in AllKeys, row \in StoredRows}

\* the API process before its one config_update request, whose body is drawn
InitRc ==
    /\ InitProcess
    /\ rc_table \in InitialTables
    /\ rc_call \in {[NoCall EXCEPT !.values = values] : values \in ItemBatches}
    /\ fn = NoFn
    /\ prune = NoPrune

rcRest == <<tailVars, fsVars, tailer, cstate, store, pc, stop_event, final, batch, error_batch, lines,
            error_lines, stats, fails, restarts, flushed, seen, counted, failed, knobs, since_write, stopper, apiVars, pre_flush, loop_now, last_flush, prune, lock, health, cache>>

Called(raised) == [rc_call EXCEPT !.raised = raised, !.turn = 1]

HasNaN(normalized) == \E i \in 1..Len(normalized) : normalized[i][2] = NaN

\* update_items raises ValueError out of its validation loop
UpdateItemsRaises ==
    /\ rc_call.turn = 0
    /\ ~update_items_normalize(rc_call.values, <<>>).ok
    /\ rc_call' = Called("ValueError")
    /\ UNCHANGED <<rc_table, rc_history, rc, rcRest>>

\* update_items: validation, upsert with history, commit, forced refresh
UpdateItems ==
    /\ rc_call.turn = 0
    /\ update_items_normalize(rc_call.values, <<>>).ok
    /\ LET db == runtime_config_upsert([table |-> rc_table, history |-> rc_history],
                                       update_items_normalize(rc_call.values, <<>>).normalized)
       IN /\ rc_table' = db.table
          /\ rc_history' = db.history
          /\ rc' = refresh(rc, db.table, TRUE)
    /\ rc_call' = Called("")
    /\ UNCHANGED rcRest

\* update_items over a value_json column of type JSON: the INSERT of the
\* text NaN raises in the database and nothing is committed
UpdateItemsInsertRaises ==
    /\ rc_call.turn = 0
    /\ update_items_normalize(rc_call.values, <<>>).ok
    /\ HasNaN(update_items_normalize(rc_call.values, <<>>).normalized)
    /\ rc_call' = Called("DataError")
    /\ UNCHANGED <<rc_table, rc_history, rc, rcRest>>

\* get(key) past the TTL: its refresh() reloads the overrides
GetCall ==
    /\ ~rc.fresh
    /\ rc' = refresh(rc, rc_table, FALSE)
    /\ UNCHANGED <<rc_table, rc_history, rc_call, rcRest>>

NextRc ==
    \/ UpdateItemsRaises
    \/ UpdateItems
    \/ UpdateItemsInsertRaises
    \/ GetCall
    \/ TtlExpires

SpecRc == InitRc /\ [][NextRc]_vars

\* a value is valid for a field: of the field's type, one of its options,
\* within its inclusive [min_value, max_value]
ValidValue(k, v) ==
    LET field == EDITABLE_FIELDS[k]
    IN IF field.value_type = "int"
       THEN py_int(v).ok /\ py_int(v).n * 10 >= field.min_value /\ py_int(v).n * 10 <= field.max_value
       ELSE IF field.value_type = "float"
       THEN py_float(v).ok /\ ~py_float(v).nan
                /\ py_float(v).n >= field.min_value /\ py_float(v).n <= field.max_value
       ELSE IF field.value_type = "enum"
       THEN strip_lower(py_str(v)) \in field.options
       ELSE normalize_value(field, v).ok

HasInvalidEntry(values) ==
    \E i \in 1..Len(values) : values[i][1] \notin SchemaKeys \/ ~ValidValue(values[i][1], values[i][2])

\* C18 (atomic reject): an update_items call whose values hold an unsupported
\* key or an invalid value raises the validation error and leaves the
\* override table, the history table and the cached overrides as they were.
InvalidBatchRejectedWhole ==
    [][(rc_call.turn = 0 /\ rc_call'.turn = 1 /\ HasInvalidEntry(rc_call.values))
          => (rc_call'.raised = "ValueError" /\ rc_table' = rc_table /\ rc_history' = rc_history
                /\ rc'.overrides = rc.overrides)]_vars

\* the row under a key is an override the schema admits
ValidRow(k) == rc_table[k].t \notin {"norow", "none", "garbage"} /\ ValidValue(k, rc_table[k])

\* C20 (override or default): after a refresh get(key) returns the override
\* of a schema-valid row and the startup default for a key without row or
\* with a row that does not parse or fails the field's check; a key outside
\* the schema gets the caller's fallback.
GetReturnsValidOverrideOrDefault ==
    rc.fresh =>
        /\ \A k \in SchemaKeys :
              rc_get(rc, k, NoValue) = IF ValidRow(k) THEN normalize_value(EDITABLE_FIELDS[k], rc_table[k]).value
                                       ELSE rc_defaults[k]
        /\ rc_get(rc, ForeignKey, NoValue) = NoValue

\* ------------------------------------------------------------------------
\* RuntimeConfigManager.refresh called from several threads, over a clock
\* ------------------------------------------------------------------------
ttlRest == <<fsVars, tailVars, procVars, knobs, since_write, cstate, store, fails, restarts,
             rc_table, rc_history, rc_call, stopper, fn, pre_flush, loop_now, last_flush, prune, lock, health, cache>>

\* now = time.monotonic(), ahead of the lock
RefreshEnter(t, force) ==
    /\ callers[t].pc = "idle"
    /\ callers' = [callers EXCEPT ![t] = [pc |-> "entered", now |-> clock, force |-> force]]
    /\ UNCHANGED <<clock, rlock, last_refresh, last_read, rc, ttlRest>>

\* the test under the lock
WithinTtl(t) == ~callers[t].force /\ callers[t].now - last_refresh < Ttl

\* with self._lock: within the TTL, return
RefreshReturns(t) ==
    /\ callers[t].pc = "entered"
    /\ rlock = 0
    /\ WithinTtl(t)
    /\ callers' = [callers EXCEPT ![t] = NoRefreshCall]
    /\ UNCHANGED <<clock, rlock, last_refresh, last_read, rc, ttlRest>>

\* with self._lock: not within the TTL, go on to runtime_config_all()
RefreshLocks(t) ==
    /\ callers[t].pc = "entered"
    /\ rlock = 0
    /\ ~WithinTtl(t)
    /\ rlock' = t
    /\ callers' = [callers EXCEPT ![t].pc = "reading"]
    /\ UNCHANGED <<clock, last_refresh, last_read, rc, ttlRest>>

\* the SELECT of runtime_config_all() is answered, the overrides are
\* rebuilt, self._last_refresh = now, the lock is released
RefreshLoads(t) ==
    /\ callers[t].pc = "reading"
    /\ rlock = t
    /\ rc' = refresh(rc, rc_table, TRUE)
    /\ last_refresh' = callers[t].now
    /\ last_read' = IF callers[t].force THEN last_read ELSE clock
    /\ rlock' = 0
    /\ callers' = [callers EXCEPT ![t] = NoRefreshCall]
    /\ UNCHANGED <<clock, ttlRest>>

\* a second goes by
Tick ==
    /\ clock < MaxClock
    /\ clock' = clock + 1
    /\ UNCHANGED <<callers, rlock, last_refresh, last_read, rc, ttlRest>>

NextTtl ==
    \/ \E t \in Callers : \E force \in BOOLEAN : RefreshEnter(t, force)
    \/ \E t \in Callers : RefreshReturns(t)
    \/ \E t \in Callers : RefreshLocks(t)
    \/ \E t \in Callers : RefreshLoads(t)
    \/ Tick

SpecTtl == Init /\ [][NextTtl]_vars

\* C21 (one read per TTL): when a caller without force reads the override
\* table, at least Ttl seconds have gone by since the last read of such a
\* caller.
ReadsAtMostOncePerTtl ==
    [][\A t \in Callers :
          (callers[t].pc = "reading" /\ callers'[t].pc = "idle" /\ ~callers[t].force /\ last_read # -1)
              => clock - last_read >= Ttl]_vars

\* ------------------------------------------------------------------------
\* The collector over an access log that holds lines of every shape
\* ------------------------------------------------------------------------
ParseSyms == {"a", "d", "u", "b", "t", "x"}

NextParse ==
    \/ WorkerSteps
    \/ \E c \in ParseSyms : AppendLine("access", c)

SpecParse == Init /\ [][NextParse]_vars

\* the line starts with a date, a time and a body
HasTimestampPrefix(line) == Head(line) \in {"a", "l", "d", "u", "b"}

\* the lines read in this iteration and the events made of them
ParsedNow == {parse_line(lines[i]) : i \in 1..Len(lines)} \ {<<>>}

FilterSrcs == {"1.2.3.4:12345", "127.0.0.10:50000", "[::1]:50000"}
FilterDetours == {"api -> api", "dns_inbound -> hkt", "socks-in -> direct"}
FilterDests == {[dest_raw |-> "tcp:example.com:443", dest_host |-> "example.com"],
                [dest_raw |-> "tcp:localhost:80", dest_host |-> "localhost"],
                [dest_raw |-> "tcp:LOCALHOST:80", dest_host |-> "LOCALHOST"],
                [dest_raw |-> "proxy/vless/encoding:", dest_host |-> "proxy/vless/encoding"]}
FilterReasons == {"", "Invalid Request Version", "read header: invalid request version 71"}

FilterEvents ==
    {[event_type |-> "access", event_time |-> 2, raw_hash |-> <<"a">>, dns |-> <<>>,
      access |-> <<[src |-> src, dest_host |-> dest.dest_host, dest_raw |-> dest.dest_raw, status |-> status,
                    detour |-> detour, reason |-> reason]>>] :
        src \in FilterSrcs, dest \in FilterDests, status \in {"accepted", "rejected"},
        detour \in FilterDetours, reason \in FilterReasons}
      \cup {parse_line(<<"d", NL>>)[1], parse_line(<<"u", NL>>)[1]}

FilterSettings ==
    {[drop_api_to_api |-> a, drop_loopback_traffic |-> l, drop_invalid_vless_probe |-> v, exclude_detours |-> x] :
        a \in BOOLEAN, l \in BOOLEAN, v \in BOOLEAN, x \in {{}, {"dns_inbound -> hkt"}}}

InitFilter ==
    /\ InitProcess
    /\ prune = NoPrune
    /\ rc_table = EmptyConfigTable
    /\ rc_call = NoCall
    /\ fn \in {[NoFn EXCEPT !.args = [ev |-> ev, settings |-> settings]] :
                  ev \in FilterEvents, settings \in FilterSettings}

fnRest == <<fsVars, tailVars, procVars, cfgVars, cstate, store, fails, restarts, rc_table, rc_history,
            rc_call, stopper, clock, callers, rlock, last_refresh, last_read, pre_flush, loop_now, last_flush, prune, lock, health, cache>>

\* the loop calls should_drop_event(parsed, filter_settings)
ShouldDropEvent ==
    /\ ~fn.done
    /\ fn' = [fn EXCEPT !.result = should_drop_event(fn.args.ev, fn.args.settings), !.done = TRUE]
    /\ UNCHANGED fnRest

SpecFilter == InitFilter /\ [][ShouldDropEvent]_vars

\* the rules of the filter over an access payload, a host being compared as
\* written or lower-cased
DropRules(a, settings, host) ==
    \/ settings.drop_api_to_api /\ a.detour = "api -> api"
    \/ a.detour \in settings.exclude_detours
    \/ /\ settings.drop_invalid_vless_probe
       /\ a.status = "rejected"
       /\ a.dest_raw = "proxy/vless/encoding:"
       /\ lower(a.reason) \in InvalidVersionTexts
    \/ /\ settings.drop_loopback_traffic
       /\ \/ LoopbackSrc(a.src)
          \/ host \in {"127.0.0.1", "localhost", "::1", "[::1]"}

\* C23 as stated: dest_host itself is one of 127.0.0.1, localhost, ::1, [::1]
DropsAsStated ==
    fn.done =>
        fn.result = IF fn.args.ev.access = <<>> THEN FALSE
                    ELSE DropRules(fn.args.ev.access[1], fn.args.settings, fn.args.ev.access[1].dest_host)

\* C23 (filter rules): should_drop_event is false for an event without
\* access payload; for an access event it is true iff one of the four rules
\* holds, dest_host being compared lower-cased.
DropsWithHostLowerCased ==
    fn.done =>
        fn.result = IF fn.args.ev.access = <<>> THEN FALSE
                    ELSE DropRules(fn.args.ev.access[1], fn.args.settings, lower(fn.args.ev.access[1].dest_host))

\* an event to LOCALHOST was dropped by the loopback rule alone
UpperCaseLoopbackDropped ==
    /\ fn.done
    /\ fn.result = TRUE
    /\ fn.args.ev.access # <<>>
    /\ fn.args.ev.access[1].dest_host = "LOCALHOST"
    /\ fn.args.ev.access[1].src = "1.2.3.4:12345"
    /\ fn.args.ev.access[1].detour = "socks-in -> direct"
    /\ ~fn.args.settings.drop_invalid_vless_probe

\* ------------------------------------------------------------------------
\* _classify.  A message is the set of the phrases it is made of, a
\* component one text; a text contains a phrase when the phrase is a
\* substring of it.
\* ------------------------------------------------------------------------
MessagePhrases == {"proxy/vless/encoding", "invalid request version", "127.0.0.1", "detour [api]", "DNS",
                   "timeout", "i/o timeout", "failed", "failed to find user", "error", "deadline exceeded",
                   "refused", "connection reset", "invalid user", "unauthorized"}
Components == {"", "proxy/vless/encoding", "app/dns", "app/dispatcher", "transport/internet"}
Levels == {"debug", "info", "warning", "error", "unknown"}

\* `phrase in text` on the lower-case texts of the model
InText(phrase, text) ==
    \/ text = phrase
    \/ text = "i/o timeout" /\ phrase = "timeout"
    \/ text = "failed to find user" /\ phrase = "failed"
    \/ text = "app/dns" /\ phrase = "dns"
    \/ text = "app/dispatcher" /\ phrase \in {"dispatch", "dispatcher"}

\* `phrase in m` for the lower-cased message
InMessage(phrase, message) == \E text \in message : InText(phrase, lower(text))

\* _classify with the timeout rule ahead of the dns rules
classify_timeout_first(component, message, level) ==
    LET c == lower(component)
    IN IF (InText("proxy/vless/encoding", c) \/ InMessage("proxy/vless/encoding", message))
              /\ InMessage("invalid request version", message)
       THEN "probe_invalid_vless"
       ELSE IF InMessage("127.0.0.1", message) /\ InMessage("detour [api]", message)
       THEN "api_loopback"
       ELSE IF InMessage("timeout", message) \/ InMessage("deadline exceeded", message)
                  \/ InMessage("i/o timeout", message)
       THEN "network_timeout"
       ELSE IF InText("dns", c) \/ InMessage("dns", message)
       THEN IF InMessage("timeout", message) \/ InMessage("failed", message) \/ InMessage("error", message)
            THEN "dns_error"
            ELSE "dns_info"
       ELSE IF InMessage("refused", message) \/ InMessage("connection reset", message)
       THEN "network_refused"
       ELSE IF InMessage("invalid user", message) \/ InMessage("failed to find user", message)
                  \/ InMessage("unauthorized", message)
       THEN "auth_error"
       ELSE IF InText("dispatch", c) \/ InText("dispatcher", c)
       THEN "routing"
       ELSE IF level = "error" THEN "runtime_error"
       ELSE IF level = "warning" THEN "runtime_warning"
       ELSE IF level = "debug" THEN "debug_trace"
       ELSE "runtime_info"

\* _classify
classify(component, message, level) ==
    LET c == lower(component)
    IN IF (InText("proxy/vless/encoding", c) \/ InMessage("proxy/vless/encoding", message))
              /\ InMessage("invalid request version", message)
       THEN "probe_invalid_vless"
       ELSE IF InMessage("127.0.0.1", message) /\ InMessage("detour [api]", message)
       THEN "api_loopback"
       ELSE IF InText("dns", c) \/ InMessage("dns", message)
       THEN IF InMessage("timeout", message) \/ InMessage("failed", message) \/ InMessage("error", message)
            THEN "dns_error"
            ELSE "dns_info"
       ELSE IF InMessage("timeout", message) \/ InMessage("deadline exceeded", message)
                  \/ InMessage("i/o timeout", message)
       THEN "network_timeout"
       ELSE IF InMessage("refused", message) \/ InMessage("connection reset", message)
       THEN "network_refused"
       ELSE IF InMessage("invalid user", message) \/ InMessage("failed to find user", message)
                  \/ InMessage("unauthorized", message)
       THEN "auth_error"
       ELSE IF InText("dispatch", c) \/ InText("dispatcher", c)
       THEN "routing"
       ELSE IF level = "error" THEN "runtime_error"
       ELSE IF level = "warning" THEN "runtime_warning"
       ELSE IF level = "debug" THEN "debug_trace"
       ELSE "runtime_info"

\* is_noise of parse_error_line
is_noise(category) == category \in {"probe_invalid_vless", "api_loopback", "scan_noise"}

\* the messages of at most MaxPhrases phrases
Messages == {m \in SUBSET MessagePhrases : Cardinality(m) <= MaxPhrases}

InitClassify ==
    /\ InitProcess
    /\ prune = NoPrune
    /\ rc_table = EmptyConfigTable
    /\ rc_call = NoCall
    /\ fn \in {[NoFn EXCEPT !.args = [component |-> c, message |-> m, level |-> l]] :
                  c \in Components, m \in Messages, l \in Levels}

\* parse_error_line classifies a line
Classify ==
    /\ ~fn.done
    /\ LET category == classify(fn.args.component, fn.args.message, fn.args.level)
       IN fn' = [fn EXCEPT !.result = [category |-> category, is_noise |-> is_noise(category)], !.done = TRUE]
    /\ UNCHANGED fnRest

SpecClassify == InitClassify /\ [][Classify]_vars

\* the ordered rule table: what a rule asks of the lower-cased component and
\* message, and its category
RuleCategories == <<"probe_invalid_vless", "api_loopback", "dns_error", "dns_info", "network_timeout",
                    "network_refused", "auth_error", "routing">>

Has(a, phrases) == \E ph \in phrases : InMessage(ph, a.message)
Mentions(a, phrase) == InText(phrase, lower(a.component)) \/ InMessage(phrase, a.message)

RuleHolds(n, a) ==
    IF n = 1 THEN Mentions(a, "proxy/vless/encoding") /\ Has(a, {"invalid request version"})
    ELSE IF n = 2 THEN Has(a, {"127.0.0.1"}) /\ Has(a, {"detour [api]"})
    ELSE IF n = 3 THEN Mentions(a, "dns") /\ Has(a, {"timeout", "failed", "error"})
    ELSE IF n = 4 THEN Mentions(a, "dns")
    ELSE IF n = 5 THEN Has(a, {"timeout", "deadline exceeded", "i/o timeout"})
    ELSE IF n = 6 THEN Has(a, {"refused", "connection reset"})
    ELSE IF n = 7 THEN Has(a, {"invalid user", "failed to find user", "unauthorized"})
    ELSE InText("dispatch", lower(a.component)) \/ InText("dispatcher", lower(a.component))

LevelFallback(level) ==
    IF level = "error" THEN "runtime_error"
    ELSE IF level = "warning" THEN "runtime_warning"
    ELSE IF level = "debug" THEN "debug_trace"
    ELSE "runtime_info"

Matching(a) == {n \in 1..Len(RuleCategories) : RuleHolds(n, a)}

\* C24 (first match wins): the category is that of the first rule of the
\* table that holds, the fallback by level applies only when none holds,
\* and is_noise is true iff the category is probe_invalid_vless,
\* api_loopback or scan_noise.
FirstMatchWins ==
    fn.done =>
        /\ fn.result.category = IF Matching(fn.args) = {} THEN LevelFallback(fn.args.level)
                                ELSE RuleCategories[Min(Matching(fn.args))]
        /\ fn.result.is_noise <=> fn.result.category \in {"probe_invalid_vless", "api_loopback", "scan_noise"}

\* a dns message with a timeout was classified, two rules holding
DnsTimeoutClassified ==
    /\ fn.done
    /\ fn.result.category = "dns_error"
    /\ {3, 4, 5} \subseteq Matching(fn.args)

\* the points of _flush
FlushPoints == {"f_ingest", "f_cache", "f_save", "f_esave", "f_eingest", "f_stats"}

\* C25 (failed flush keeps the offsets): when a step of a flush raises,
\* collector_state is as it was when the flush began, for both files, and
\* the next read of the loop starts at that saved offset.
FailedFlushKeepsOffsets ==
    [][/\ (pc \in FlushPoints /\ pc' \in {"handler", "dead"}) => cstate = pre_flush
       /\ (failed # {} /\ pc = "top" /\ pc' = "read")
             => \A p \in Paths : tailer[p].offset = cstate[p].offset]_vars

\* C26 (only whole lines): every element a poll returns ends with its
\* newline, and the poll leaves the offset just after a newline: the
\* unterminated rest of the file is neither returned nor stepped over.
OnlyTerminatedLinesReturned ==
    [][\A m \in 1..MaxPoll :
          LET r == read_new_lines(tailer[TP], disk[TP], m)
          IN (disk' = disk /\ tailer'[TP] = r.t /\ r.out # <<>>)
                => /\ \A i \in 1..Len(r.out) : r.out[i][Len(r.out[i])] = NL
                   /\ disk[TP].data[r.t.fh][r.t.offset] = NL]_vars

\* ------------------------------------------------------------------------
\* The loop with its clock: the flush decision of an iteration is taken on
\* the sample of time.monotonic() of that iteration.
\* ------------------------------------------------------------------------
\* Settings.flush_interval_seconds, in seconds of the clock
flush_interval == FlushInterval

\* now = time.monotonic(); should_flush = ...
ProcessAt == ProcessWhen(clock - last_flush >= flush_interval)

NextFlush ==
    \/ LoopTop
    \/ ReadAccess
    \/ ReadError
    \/ ProcessAt
    \/ FlushIngest
    \/ FlushCache
    \/ FlushSave
    \/ FlushSaveError
    \/ FlushIngestError
    \/ FlushFinish
    \/ IterationEnd
    \/ \E p \in Paths : \E c \in Syms(p) : AppendLine(p, c)
    \/ Tick
    \/ RequestStop

SpecFlush == Init /\ [][NextFlush]_vars

\* C27 (flush decision): an iteration calls _flush exactly when a batch is
\* non-empty and a batch has reached batch_size or flush_interval has gone
\* by since last_flush; no flush of the loop runs on two empty batches; a
\* flush that returns leaves both batches empty and last_flush at the
\* iteration's sample.
FlushesWhenDue ==
    [][/\ pc = "process"
          => (pc' = "f_ingest"
                <=> /\ batch' # <<>> \/ error_batch' # <<>>
                    /\ \/ Len(batch') >= batch_size
                       \/ Len(error_batch') >= batch_size
                       \/ loop_now' - last_flush >= flush_interval)
       /\ (pc' \in FlushPoints /\ ~final') => (batch' # <<>> \/ error_batch' # <<>>)
       /\ (pc = "f_stats" /\ pc' = "retention")
          => (batch' = <<>> /\ error_batch' = <<>> /\ last_flush' = loop_now)]_vars

\* a flush of the loop started by the interval alone
FlushedByInterval ==
    /\ pc = "f_ingest"
    /\ ~final
    /\ Len(batch) < batch_size
    /\ Len(error_batch) < batch_size
    /\ loop_now - last_flush >= flush_interval

\* ------------------------------------------------------------------------
\* ingest_events and ingest_error_events statement by statement on the
\* connection (autocommit off): the statements run in the transaction of
\* the connection, commit makes them visible, rollback drops them.
\* ------------------------------------------------------------------------
\* the cur.execute calls of ingest_events, in order: the raw upsert of each
\* event, then the upsert of its access or dns payload
RECURSIVE Statements(_)
Statements(events) ==
    IF events = <<>>
    THEN <<>>
    ELSE LET ev == Head(events)
         IN <<[table |-> "raw", ev |-> ev]>>
            \o (IF ev.access # <<>> THEN <<[table |-> "access", ev |-> ev]>>
                ELSE IF ev.dns # <<>> THEN <<[table |-> "dns", ev |-> ev]>>
                ELSE <<>>)
            \o Statements(Tail(events))

\* the cur.execute calls of ingest_error_events
ErrorStatements(events) == [i \in 1..Len(events) |-> [table |-> "error", ev |-> events[i]]]

\* one cur.execute on the tables as the transaction sees them
execute(st, stmt) ==
    IF stmt.table = "raw" THEN [st EXCEPT !.raw = upsert_raw(@, stmt.ev)]
    ELSE IF stmt.table = "access" THEN [st EXCEPT !.access = @ \cup {raw_row_id(st.raw, stmt.ev.raw_hash)}]
    ELSE IF stmt.table = "dns" THEN [st EXCEPT !.dns = @ \cup {raw_row_id(st.raw, stmt.ev.raw_hash)}]
    ELSE [st EXCEPT !.error = upsert_error(@, stmt.ev)]

\* the first n statements run in the transaction
RECURSIVE execute_all(_, _, _)
execute_all(st, stmts, n) ==
    IF n = 0 \/ stmts = <<>> THEN st ELSE execute_all(execute(st, Head(stmts)), Tail(stmts), n - 1)

\* an except branch that returns without self.conn.rollback(): the next
\* commit on the connection publishes what the transaction holds
no_rollback(committed, view) == view

\* self.conn.rollback(): the transaction is dropped
rollback(committed, view) == committed

\* try: statements, commit; except: rollback, raise.  fail_at is the number
\* of the cur.execute that raises, one more than the statements for a commit
\* that raises, 0 when nothing raises.
in_transaction(st, stmts, fail_at) ==
    IF fail_at = 0
    THEN [store |-> execute_all(st, stmts, Len(stmts)), raised |-> FALSE]
    ELSE [store |-> rollback(st, execute_all(st, stmts, fail_at - 1)), raised |-> TRUE]

TxStatements(kind, events) == IF kind = "access" THEN Statements(events) ELSE ErrorStatements(events)

txRest == <<fsVars, tailVars, procVars, cfgVars, cstate, fails, restarts, rc_table, rc_history,
            rc_call, stopper, clock, callers, rlock, last_refresh, last_read, pre_flush, loop_now, last_flush, prune, lock, health, cache>>

\* one call of ingest_events or ingest_error_events on a non-empty batch
IngestCall(kind, events, fail_at) ==
    LET r == in_transaction(store, TxStatements(kind, events), fail_at)
    IN /\ Len(IF kind = "access" THEN store.raw ELSE store.error) + Len(events) <= MaxRows
       /\ store' = r.store
       /\ fn' = [args |-> [kind |-> kind, events |-> events, fail_at |-> fail_at],
                 result |-> r.raised, done |-> TRUE]
       /\ UNCHANGED txRest

NextTx ==
    \/ \E events \in AccessBatches : \E k \in 0..(Len(Statements(events)) + 1) : IngestCall("access", events, k)
    \/ \E events \in ErrorBatches : \E k \in 0..(Len(events) + 1) : IngestCall("error", events, k)

SpecTx == Init /\ [][NextTx]_vars

\* C28 (all or nothing): a call of ingest_events or ingest_error_events in
\* which a statement or the commit fails raises and leaves every table as
\* it was before the call; a call in which nothing fails stores the whole
\* batch.
IngestAllOrNothing ==
    [][fn' # fn
          => LET a == fn'.args
             IN IF a.fail_at # 0
                THEN fn'.result /\ store' = store
                ELSE /\ ~fn'.result
                     /\ store' = IF a.kind = "access"
                                 THEN ingest_events(store, a.events)
                                 ELSE [store EXCEPT !.error = ingest_error_events(@, a.events)]]_vars

\* a call on a store with rows failed at its second statement or later
LateStatementFailed ==
    /\ fn.done
    /\ fn.result
    /\ fn.args.fail_at >= 2
    /\ store.raw # <<>>
    /\ \E i \in 1..Len(fn.args.events) :
          \A j \in LiveIds(store.raw) : store.raw[j].raw_hash # fn.args.events[i].raw_hash

\* ------------------------------------------------------------------------
\* prune_old_events chunk by chunk over its four tables.  A table is the
\* time column of its rows in id order (event_time, changed_at for the
\* history table); NOW(6) is the same day for every statement of the call.
\* ------------------------------------------------------------------------
TableOrder ==
    <<"audit_raw_events", "audit_error_events", "audit_auth_events", "audit_runtime_config_history">>

\* the day of the call, and the days of the rows: one before the cutoff of a
\* retention of one day, one at it
PruneNow == MaxDay
PruneTimes == {PruneNow - 2, PruneNow - 1}

RECURSIVE TimeColumns(_)
TimeColumns(n) ==
    IF n = 0
    THEN {<<>>}
    ELSE LET shorter == TimeColumns(n - 1)
         IN shorter \cup {Append(rows, [event_time |-> d, live |-> TRUE]) :
                             rows \in {r \in shorter : Len(r) = n - 1}, d \in PruneTimes}

\* the contents of the four tables, MaxPruneRows rows in all
FourTables(a, b, c, d) ==
    [t \in Tables |-> IF t = TableOrder[1] THEN a
                      ELSE IF t = TableOrder[2] THEN b
                      ELSE IF t = TableOrder[3] THEN c ELSE d]

PruneTables ==
    UNION {UNION {UNION {{FourTables(a, b, c, d) :
                             d \in TimeColumns(MaxPruneRows - Len(a) - Len(b) - Len(c))} :
                         c \in TimeColumns(MaxPruneRows - Len(a) - Len(b))} :
                  b \in TimeColumns(MaxPruneRows - Len(a))} :
           a \in TimeColumns(MaxPruneRows)}

InitPrune ==
    /\ InitProcess
    /\ rc_table = EmptyConfigTable
    /\ rc_call = NoCall
    /\ fn = NoFn
    /\ prune \in {[NoPrune EXCEPT !.tables = tb, !.before = tb, !.now = PruneNow,
                                  !.retention_days = r, !.delete_batch_size = n] :
                     tb \in PruneTables, r \in {-1, 0, 1}, n \in 0..MaxDeleteBatch}

pruneRest == <<fsVars, tailVars, procVars, cfgVars, cstate, store, fails, restarts, rc_table, rc_history,
               rc_call, stopper, apiVars, pre_flush, loop_now, last_flush, lock, health, cache>>

\* a loop that stops after any chunk that is not larger than the limit
last_chunk_at_most(deleted, delete_batch_size) == deleted <= delete_batch_size

\* if deleted < delete_batch_size: break
last_chunk(deleted, delete_batch_size) == deleted < delete_batch_size

\* the call, up to the first loop: return 0 on a non-positive argument
PruneEnter ==
    /\ prune.loop = 0
    /\ prune' = [prune EXCEPT !.loop = IF prune.retention_days <= 0 \/ prune.delete_batch_size <= 0
                                       THEN 5 ELSE 1]
    /\ UNCHANGED pruneRest

\* one turn of one of the four while loops: the DELETE, its commit,
\* total_deleted += deleted, and the break into the next loop (after the
\* fourth: return total_deleted)
PruneChunk ==
    /\ prune.loop \in 1..4
    /\ LET t == TableOrder[prune.loop]
           ids == first_ids(old_ids(prune.tables[t], prune.now, prune.retention_days),
                            prune.delete_batch_size)
           deleted == Cardinality(ids)
       IN prune' = [prune EXCEPT !.tables[t] = delete_rows(@, ids),
                                 !.total_deleted = @ + deleted,
                                 !.chunks = Append(@, deleted),
                                 !.loop = IF last_chunk(deleted, prune.delete_batch_size) THEN @ + 1 ELSE @]
    /\ UNCHANGED pruneRest

NextPrune == PruneEnter \/ PruneChunk

SpecPrune == InitPrune /\ [][NextPrune]_vars /\ WF_vars(NextPrune)

\* the rows of a table that exist
LiveRows(rows) == Cardinality(LiveIds(rows))

RECURSIVE SumOf(_)
SumOf(ns) == IF ns = <<>> THEN 0 ELSE Head(ns) + SumOf(Tail(ns))

\* C29 (pruning): prune_old_events returns; no chunk is larger than
\* delete_batch_size and every chunk is committed when it is counted; on
\* return no table holds a row older than now - retention_days and the
\* total returned is the number of rows deleted; with retention_days <= 0 or
\* delete_batch_size <= 0 nothing is deleted and 0 is returned.
PruneLeavesNoOldRows ==
    /\ <>(prune.loop = 5)
    /\ [](/\ \A i \in 1..Len(prune.chunks) : prune.chunks[i] <= prune.delete_batch_size
          /\ prune.total_deleted = SumOf([i \in 1..4 |-> LiveRows(prune.before[TableOrder[i]])
                                                            - LiveRows(prune.tables[TableOrder[i]])])
          /\ prune.loop = 5
                => IF prune.retention_days <= 0 \/ prune.delete_batch_size <= 0
                   THEN prune.tables = prune.before /\ prune.total_deleted = 0
                   ELSE /\ \A t \in Tables :
                              old_ids(prune.tables[t], prune.now, prune.retention_days) = {}
                        /\ \A t \in Tables : \A i \in LiveIds(prune.before[t]) :
                              prune.before[t][i].event_time >= prune.now - prune.retention_days
                                 => prune.tables[t][i].live)

\* a call that returned after a table took more than one full chunk
PrunedInSeveralChunks ==
    /\ prune.loop = 5
    /\ Len(prune.chunks) >= 6
    /\ prune.total_deleted >= 3
    /\ \E t \in Tables : \E i \in LiveIds(prune.tables[t]) : TRUE

\* ------------------------------------------------------------------------
\* The stats block of _flush assignment by assignment under self._lock,
\* with another thread calling stats_snapshot at any time.
\* ------------------------------------------------------------------------
\* a with that enters whether or not the lock is held
acquire_unlocked(holders) == TRUE

\* with self._lock: entered when no thread holds the lock
acquire(holders) == holders = {}

\* the assignments of the stats block, in order
StatsAssignments == 4

assign(st, k, b, eb) ==
    IF k = 1 THEN [st EXCEPT !.batches_flushed = @ + 1]
    ELSE IF k = 2 THEN [st EXCEPT !.raw_written_total = @ + (IF b # <<>> THEN ingest_counts(b).raw ELSE 0)]
    ELSE IF k = 3 THEN [st EXCEPT !.error_written_total = @ + Len(eb)]
    ELSE [st EXCEPT !.last_error = ""]

statsRest == <<tailVars, sideVars0, cache, prune, pre_flush, loop_now, cfgVars, fsVars, tailer, cstate, store,
               stop_event, final, lines, error_lines, fails, restarts, seen, counted, failed>>

\* _flush: with self._lock
StatsAcquire ==
    /\ pc = "f_stats"
    /\ lock.step = 0
    /\ acquire(lock.holders)
    /\ lock' = [lock EXCEPT !.holders = @ \cup {"worker"}, !.step = 1, !.before = stats]
    /\ UNCHANGED <<statsRest, health, stats, pc, batch, error_batch, flushed, last_flush>>

\* _flush: one assignment of the block
StatsAssign ==
    /\ pc = "f_stats"
    /\ lock.step \in 1..StatsAssignments
    /\ stats' = assign(stats, lock.step, batch, error_batch)
    /\ lock' = [lock EXCEPT !.step = @ + 1]
    /\ UNCHANGED <<statsRest, health, pc, batch, error_batch, flushed, last_flush>>

\* _flush: the end of the block and return; then batch = [],
\* error_batch = [], last_flush = now
StatsRelease ==
    /\ pc = "f_stats"
    /\ lock.step = StatsAssignments + 1
    /\ lock' = [lock EXCEPT !.holders = @ \ {"worker"}, !.step = 0]
    /\ batch' = <<>>
    /\ error_batch' = <<>>
    /\ flushed' = TRUE
    /\ pc' = IF final THEN "stopped" ELSE "retention"
    /\ last_flush' = IF final THEN last_flush ELSE loop_now
    /\ health' = publish_health(health)
    /\ UNCHANGED <<statsRest, stats>>

snapRest == <<statsRest, health, stats, pc, batch, error_batch, flushed, last_flush>>

\* another thread calls stats_snapshot
SnapshotCall ==
    /\ lock.reader = "idle"
    /\ lock' = [lock EXCEPT !.reader = "waiting", !.during = lock.step > 0]
    /\ UNCHANGED snapRest

\* stats_snapshot: with self._lock: return self.stats.as_dict()
SnapshotReturns ==
    /\ lock.reader = "waiting"
    /\ acquire(lock.holders)
    /\ lock' = [lock EXCEPT !.reader = "idle", !.snapshot = stats]
    /\ UNCHANGED snapRest

NextStats ==
    \/ LoopTop
    \/ ReadAccess
    \/ ReadError
    \/ Process
    \/ FlushIngest
    \/ FlushCache
    \/ FlushSave
    \/ FlushSaveError
    \/ FlushIngestError
    \/ StatsAcquire
    \/ StatsAssign
    \/ StatsRelease
    \/ IterationEnd
    \/ \E p \in Paths : \E c \in Syms(p) : AppendLine(p, c)
    \/ SnapshotCall
    \/ SnapshotReturns

SpecStats == Init /\ [][NextStats]_vars

\* C30 (snapshot and flush): a stats_snapshot that returns while the stats
\* block of a flush is entered holds the counters as they were before the
\* block or as they are after all of its assignments, and the block leaves
\* the counters of the whole flush.
SnapshotSeesWholeFlush ==
    [][/\ (lock.reader = "waiting" /\ lock'.reader = "idle" /\ lock.step > 0)
             => lock'.snapshot \in {lock.before, flush_stats(lock.before, batch, error_batch)}
       /\ (lock.step > 0 /\ lock'.step = 0) => stats' = flush_stats(lock.before, batch, error_batch)]_vars

\* a snapshot asked for inside the stats block has returned the counters
\* of the finished flush
SnapshotWaitedForFlush ==
    /\ lock.during
    /\ lock.reader = "idle"
    /\ lock.step = 0
    /\ lock.snapshot # <<>>
    /\ lock.snapshot.batches_flushed = lock.before.batches_flushed + 1
    /\ lock.snapshot.raw_written_total > lock.before.raw_written_total

\* C31 (heartbeats): with the cache enabled a flush that returns has
\* published one heartbeat, and an iteration in which both tailers returned
\* no line publishes one before it ends.
HeartbeatAfterFlushAndIdlePoll ==
    [][/\ (pc = "f_stats" /\ pc' \in {"retention", "stopped"}) => health'.beats = health.beats + 1
       /\ (pc = "retention" /\ pc' = "top" /\ health.idle) => health'.beats >= health.beats + 1]_vars

\* an idle iteration that flushed a batch left from the iteration before has
\* published two heartbeats
IdlePollAfterFlush ==
    /\ pc = "top"
    /\ health.idle
    /\ flushed
    /\ health.beats = 2

\* ------------------------------------------------------------------------
\* The collector and the cache: both logs are appended to, any call of a
\* flush can raise, the worker is neither stopped nor killed.
\* ------------------------------------------------------------------------
NextCache ==
    \/ WorkerSteps
    \/ FlushIngestRaises
    \/ FlushCacheRaises
    \/ FlushSaveRaises
    \/ FlushSaveErrorRaises
    \/ FlushIngestErrorRaises
    \/ FlushFinishRaises
    \/ Handler
    \/ \E p \in Paths : \E c \in Syms(p) : AppendLine(p, c)

SpecCache == Init /\ [][NextCache]_vars

\* the lines of a file that end at or before a byte offset
RECURSIVE LinesUpTo(_, _, _)
LinesUpTo(content, from, upto) ==
    LET line == readline(content, from)
    IN IF line = <<>> \/ from + Len(line) > upto
       THEN <<>>
       ELSE <<line>> \o LinesUpTo(content, from + Len(line), upto)

\* the access events the loop has batched: those of the lines up to the
\* offset of the access tailer that parse and pass the filter
BatchedSoFar ==
    batch_lines(<<>>, LinesUpTo(disk["access"].data[disk["access"].cur], 0, tailer["access"].offset))

\* the events among them with a minute and a dest_host
EventsOf(minute, host) ==
    {i \in 1..Len(BatchedSoFar) :
        /\ BatchedSoFar[i].access # <<>>
        /\ BatchedSoFar[i].event_time = minute
        /\ BatchedSoFar[i].access[1].dest_host = host}

Score(minute, host) == IF <<minute, host>> \in DOMAIN cache.domains THEN cache.domains[<<minute, host>>] ELSE 0

\* C32 (domain counters): once every batched event has been flushed, the
\* score of a dest_host in a minute bucket is the number of flushed access
\* events with that dest_host and minute, whatever flushes failed and were
\* tried again on the way.
DomainScoresCountEvents ==
    (pc = "top" /\ batch = <<>> /\ lines = <<>>)
        => \A minute \in 1..2 : \A host \in {"example.com", "got"} :
              Score(minute, host) = Cardinality(EventsOf(minute, host))

\* ------------------------------------------------------------------------
\* update_from_events called with batches of any size on the cache alone.
\* The k-th event ever passed carries k as its raw line; fn.result counts
\* the events passed so far.
\* ------------------------------------------------------------------------
RecentBatchSizes == {0, 1, 2, recent_stop, recent_stop + 1, recent_stop + 2}

RecentEvent(k) == [event_type |-> "unknown", event_time |-> 2, raw_hash |-> k, access |-> <<>>, dns |-> <<>>]

InitRecent ==
    /\ InitProcess
    /\ rc_table = EmptyConfigTable
    /\ rc_call = NoCall
    /\ prune = NoPrune
    /\ fn = [args |-> 0, result |-> 0, done |-> FALSE]

recentRest == <<fsVars, tailVars, procVars, cfgVars, cstate, store, fails, restarts, rc_table, rc_history,
                rc_call, stopper, clock, callers, rlock, last_refresh, last_read, pre_flush, loop_now, last_flush, prune, lock, health>>

\* self.redis_cache.update_from_events(events) with n further events
UpdateFromEvents(n) ==
    /\ fn.result + n <= MaxPushed
    /\ cache' = update_from_events(cache, [i \in 1..n |-> RecentEvent(fn.result + i)])
    /\ fn' = [args |-> n, result |-> fn.result + n, done |-> TRUE]
    /\ UNCHANGED recentRest

SpecRecent == InitRecent /\ [][\E n \in RecentBatchSizes : UpdateFromEvents(n)]_vars

\* C33 (recent events): after every call the list holds at most 1000
\* entries, and they are the events pushed last, the newest first.
RecentHoldsNewest ==
    /\ Len(cache.recent) = (IF fn.result < recent_stop + 1 THEN fn.result ELSE recent_stop + 1)
    /\ \A i \in 1..Len(cache.recent) : cache.recent[i] = compact(RecentEvent(fn.result - i + 1))

\* a batch of more than 1000 events was pushed onto a list that held some
RecentOverfilled ==
    /\ fn.args = recent_stop + 2
    /\ fn.result > recent_stop + 2
    /\ Len(cache.recent) = recent_stop + 1

\* the lines a read step has handed to the loop
ReadOf(p) == IF p = "access" THEN lines ELSE error_lines

\* C34 (restart across a rotation): a tailer seeded with a persisted inode
\* that is not the inode of the file now at the path reads that file from
\* byte 0: after its first read its offset is the length of what it
\* returned.
SeededReadStartsAtZeroAfterRotation ==
    [][\A p \in Paths :
          (/\ pc = ReadPoint(p)
           /\ pc' # pc
           /\ tailer[p].fh = 0
           /\ tailer[p].inode # 0
           /\ disk[p].cur # 0
           /\ disk[p].cur # tailer[p].inode)
             => tailer'[p].offset = Len(Concat(ReadOf(p)'))]_vars

\* ------------------------------------------------------------------------
\* One LogTailer on a file that is only appended to: the writer adds bytes,
\* the collector seeds the tailer once before its first read, the caller
\* polls.  Nothing cuts or rotates the file.
\* ------------------------------------------------------------------------
AppendBytes == {"a", NL, CR}

\* run_forever seeds the tailer with a persisted offset inside the file
TSeed(k) ==
    /\ tailer[TP].fh = 0
    /\ tailer[TP].inode = 0
    /\ k <= st_size(disk[TP])
    /\ tailer' = [tailer EXCEPT ![TP] = set_state(@, disk[TP].cur, k)]
    /\ UNCHANGED <<disk, trunc, rot, collVars>>

NextAppend ==
    \/ \E c \in AppendBytes : TWrite(c)
    \/ \E k \in 0..MaxFileBytes : TSeed(k)
    \/ \E m \in 1..MaxPoll : TRead(m)

SpecAppend == Init /\ [][NextAppend]_vars

\* the text a run of bytes decodes to: CR NL and a lone CR become NL
RECURSIVE universal_newlines(_)
universal_newlines(bytes) ==
    IF bytes = <<>>
    THEN <<>>
    ELSE IF Head(bytes) = CR
         THEN IF Len(bytes) > 1 /\ bytes[2] = NL
              THEN <<NL>> \o universal_newlines(Tail(Tail(bytes)))
              ELSE <<NL>> \o universal_newlines(Tail(bytes))
         ELSE <<Head(bytes)>> \o universal_newlines(Tail(bytes))

\* C35 (append-only reads are contiguous): every poll of a file that is only
\* appended to returns at most max_lines lines, leaves the offset no lower
\* than it was and inside the file, returns exactly the text of the bytes
\* between the old and the new offset (so that the calls together return
\* the file from the seeded offset on, each byte once), and stops short of
\* max_lines only at the end of the file.
AppendOnlyReadsAreContiguous ==
    [][\A m \in 1..MaxPoll :
          LET t == tailer[TP]
              content == disk[TP].data[disk[TP].cur]
              r == read_new_lines(t, disk[TP], m)
          IN (disk' = disk /\ tailer' # tailer /\ tailer'[TP] = r.t /\ r.t.fh # 0)
                => /\ Len(r.out) <= m
                   /\ t.offset <= r.t.offset
                   /\ r.t.offset <= Len(content)
                   /\ Concat(r.out) = universal_newlines(SubSeq(content, t.offset + 1, r.t.offset))
                   /\ (Len(r.out) < m => r.t.offset = Len(content))]_vars

\* C36 (counter conservation): at every boundary between two iterations of
\* the loop each line read is counted once more: as a parse failure, as
\* filtered, as written, or it is in the batch in memory; for the access
\* log and for the error log.
CountersConserved ==
    pc = "top" =>
        /\ stats.lines_read_total
              = stats.parse_fail_total + stats.filtered_total
                + stats.raw_written_total + Len(batch)
        /\ stats.error_lines_read_total
              = stats.error_parse_fail_total + stats.error_filtered_total
                + stats.error_written_total + Len(error_batch)

\* ------------------------------------------------------------------------
\* The worker thread under a fair scheduler: the thread takes its next step
\* whenever it has one, and time goes by, so that an iteration that keeps
\* coming back to its flush decision finds the interval elapsed at last.
\* ------------------------------------------------------------------------
Worker == WorkerSteps \/ WorkerRaises

\* both logs get lines that are batched; stop() is called at any point
NextLive ==
    \/ Worker
    \/ AppendLine("access", "a")
    \/ AppendLine("error", "e")
    \/ StopCall
    \/ JoinReturns
    \/ JoinTimesOut
    \/ Close

SpecLive == Init /\ [][NextLive]_vars /\ WF_vars(Worker) /\ SF_vars(ProcessWhen(TRUE))

\* events in a batch that no call of _flush has been given yet
Unsubmitted == BatchEvents(batch, error_batch) \ failed

\* C37 (batched events reach a flush): whenever a batch in memory holds an
\* event that no flush has been given, a later call of _flush, of the loop
\* or the final one, is given it.
BatchedEventsAreSubmitted ==
    (pc \notin FlushPoints /\ Unsubmitted # {}) ~> (pc \in FlushPoints)

\* C39 (shutdown terminates): once stop is requested, the next evaluation
\* of the loop condition leaves the loop, for the final flush when a batch
\* holds something and for the end otherwise; the final flush is entered
\* from there only, and neither it nor the ended thread goes back to any
\* point of the loop; and under fairness the thread ends.
ShutdownTerminates ==
    /\ [][/\ (stop_event /\ pc = "top" /\ pc' # pc)
                => (pc' \in {"f_ingest", "stopped"} /\ (pc' = "f_ingest" => final'))
          /\ (final' /\ ~final) => (pc = "top" /\ pc' = "f_ingest")
          /\ ((final /\ pc \in FlushPoints) \/ WorkerEnded)
                => pc' \in FlushPoints \cup {"stopped", "dead"}]_vars
    /\ stop_event ~> WorkerEnded

\* stop was requested while a batch held an event, the final flush wrote
\* it and the thread ended
StoppedAfterFinalFlush ==
    /\ stop_event
    /\ pc = "stopped"
    /\ final
    /\ flushed
    /\ store.error # <<>>

\* ------------------------------------------------------------------------
\* The loop on a busy access log: every poll can return a line, without
\* end, and none of these lines reaches a batch (it has no timestamp, or it
\* is loopback traffic).  The polls are inputs here, the file behind them
\* is left out, and so are the counters of stats, which grow with every
\* line and play no part in any heartbeat.  The worker is scheduled fairly
\* and the clock goes on, so that the cleanup interval is found elapsed
\* again and again.
\* ------------------------------------------------------------------------
StreamReads == {<<>>, <<<<"x", NL>>>>, <<<<"l", NL>>>>, <<<<"x", NL>>, <<"l", NL>>>>}

\* lines = self.tailer.read_new_lines(...) on the busy log
StreamRead ==
    /\ pc = "read"
    /\ \E ls \in StreamReads : lines' = ls
    /\ pc' = "eread"
    /\ UNCHANGED <<tailVars, sideVars, cfgVars, fsVars, tailer, cstate, store, stop_event, final, batch, error_batch,
                   error_lines, stats, fails, restarts, flushed, seen, counted, failed>>

\* the two for loops and the flush decision
ProcessStream == \E due \in BOOLEAN : ProcessLines(due) /\ UNCHANGED <<stats, counted>>

NextBeat ==
    \/ LoopTop
    \/ StreamRead
    \/ ReadError
    \/ ProcessStream
    \/ IterationEnd
    \/ IterationEndRaises
    \/ Handler
    \/ HandlerRaises
    \/ StopCall

SpecBeat == Init /\ [][NextBeat]_vars /\ WF_vars(NextBeat) /\ SF_vars(IterationEndWhen(TRUE))

\* C38 (heartbeat liveness): unless the worker thread ends, iterations that
\* publish a heartbeat come again and again, on a log that keeps every
\* poll busy with lines that are dropped too.
HeartbeatsRecur == <>WorkerEnded \/ []<>(health.beats > 0)

\* an iteration whose poll returned a line, which flushed nothing and
\* caught no exception, has published a heartbeat after its cleanup
HeartbeatOnBusyLog ==
    /\ pc = "top"
    /\ ~health.idle
    /\ health.beats = 1
    /\ fails = 0
    /\ batch = <<>>
    /\ ~flushed

============================================================================
